---- MODULE Spec2Model ----
(***************************************************************************)
(* Model of speaker_role_classifier.classifier: the label-mapping pipeline *)
(* of classify_speakers (label extraction, role mapping through the        *)
(* reasoning service, mapping validation, label substitution) and the log  *)
(* it accumulates.                                                         *)
(*                                                                         *)
(* Text is modelled as a sequence of one-character strings, so that        *)
(* str.split, str.strip, re.match, str.count, str.replace and sorted()     *)
(* are computed character by character as Python computes them.            *)
(***************************************************************************)
EXTENDS Integers, Sequences, FiniteSets, TLC

(***************************************************************************)
(* Bounds of the model.                                                    *)
(***************************************************************************)
\* Largest number of lines of an input transcript.
MaxLines == 3

(***************************************************************************)
(* Characters and their code points (Python compares str by code point).   *)
(***************************************************************************)
NL == "\n"
SP == " "
COLON == ":"

Ord(c) ==
    CASE c = "\n" -> 10
      [] c = " "  -> 32
      [] c = "0"  -> 48
      [] c = "1"  -> 49
      [] c = "5"  -> 53
      [] c = ":"  -> 58
      [] c = "A"  -> 65
      [] c = "C"  -> 67
      [] c = "S"  -> 83
      [] c = "X"  -> 88
      [] c = "e"  -> 101
      [] c = "g"  -> 103
      [] c = "h"  -> 104
      [] c = "i"  -> 105
      [] c = "m"  -> 109
      [] c = "n"  -> 110
      [] c = "o"  -> 111
      [] c = "r"  -> 114
      [] c = "s"  -> 115
      [] c = "t"  -> 116
      [] c = "u"  -> 117

IsSpace(c) == c = SP \/ c = NL

(***************************************************************************)
(* Python str primitives.                                                  *)
(***************************************************************************)
\* Every primitive binds its arguments once, by a quantifier or a CHOOSE
\* over a singleton: its body then works on values, however long the
\* expressions it was applied to.

\* s[i:] (1-based i)
Drop(s, i) ==
    CHOOSE r \in { IF k > Len(a) THEN <<>> ELSE SubSeq(a, k, Len(a)) :
                     a \in {s}, k \in {i} } : TRUE

\* s.startswith(p) at position i
StartsWithAt(s, p, i) ==
    \E a \in {s}, b \in {p}, k \in {i} :
      /\ k + Len(b) - 1 <= Len(a)
      /\ \A j \in 1..Len(b) : a[k + j - 1] = b[j]

\* p in s
Contains(s, p) ==
    \E a \in {s}, b \in {p} :
      \E i \in 1..(Len(a) - Len(b) + 1) : StartsWithAt(a, b, i)

\* s.count(p): non-overlapping occurrences, scanning left to right
RECURSIVE CountFrom(_, _, _)
CountFrom(s, p, i) ==
    CHOOSE r \in { IF k + Len(b) - 1 > Len(a) THEN 0
                   ELSE IF StartsWithAt(a, b, k) THEN 1 + CountFrom(a, b, k + Len(b))
                   ELSE CountFrom(a, b, k + 1) :
                     a \in {s}, b \in {p}, k \in {i} } : TRUE

Count(s, p) == CountFrom(s, p, 1)

\* s.replace(old, new): every non-overlapping occurrence, left to right
RECURSIVE ReplaceFrom(_, _, _, _)
ReplaceFrom(s, old, new, i) ==
    CHOOSE r \in { IF k > Len(a) THEN <<>>
                   ELSE IF StartsWithAt(a, o, k)
                        THEN n \o ReplaceFrom(a, o, n, k + Len(o))
                   ELSE <<a[k]>> \o ReplaceFrom(a, o, n, k + 1) :
                     a \in {s}, o \in {old}, n \in {new}, k \in {i} } : TRUE

Replace(s, old, new) == ReplaceFrom(s, old, new, 1)

\* s.strip()
RECURSIVE LStrip(_)
LStrip(s) ==
    CHOOSE r \in { IF a # <<>> /\ IsSpace(Head(a)) THEN LStrip(Tail(a)) ELSE a :
                     a \in {s} } : TRUE

RECURSIVE RStrip(_)
RStrip(s) ==
    CHOOSE r \in { IF a # <<>> /\ IsSpace(a[Len(a)])
                   THEN RStrip(SubSeq(a, 1, Len(a) - 1)) ELSE a :
                     a \in {s} } : TRUE

Strip(s) == RStrip(LStrip(s))

\* index of the first occurrence of character c in s, 0 when absent
RECURSIVE IndexFrom(_, _, _)
IndexFrom(s, c, i) ==
    CHOOSE r \in { IF k > Len(a) THEN 0
                   ELSE IF a[k] = c THEN k ELSE IndexFrom(a, c, k + 1) :
                     a \in {s}, k \in {i} } : TRUE

Index(s, c) == IndexFrom(s, c, 1)

\* the pieces of s[i:] between the newlines
RECURSIVE SplitFrom(_, _)
SplitFrom(s, i) ==
    CHOOSE r \in { IF j = 0 THEN <<Drop(a, k)>>
                   ELSE <<SubSeq(a, k, j - 1)>> \o SplitFrom(a, j + 1) :
                     a \in {s}, k \in {i}, j \in {IndexFrom(s, NL, i)} } : TRUE

\* s.split('\n'): always at least one element
Split(s) == SplitFrom(s, 1)

\* sep.join(parts)
RECURSIVE Join(_, _)
Join(sep, parts) ==
    CHOOSE r \in { IF ps = <<>> THEN <<>>
                   ELSE IF Len(ps) = 1 THEN ps[1]
                   ELSE ps[1] \o sep \o Join(sep, Tail(ps)) :
                     ps \in {parts} } : TRUE

\* a < b for str: lexicographic by code point, a proper prefix is smaller
RECURSIVE StrLess(_, _)
StrLess(a, b) ==
    \E x \in {a}, y \in {b} :
      IF y = <<>> THEN FALSE
      ELSE IF x = <<>> THEN TRUE
      ELSE IF Head(x) = Head(y) THEN StrLess(Tail(x), Tail(y))
      ELSE Ord(Head(x)) < Ord(Head(y))

\* sorted(S): ascending list of the elements of a set of str
RECURSIVE sorted(_)
sorted(S) ==
    CHOOSE r \in { IF T = {} THEN <<>>
                   ELSE LET m == CHOOSE x \in T : \A y \in T \ {x} : StrLess(x, y)
                        IN  <<m>> \o sorted(T \ {m}) :
                     T \in {S} } : TRUE

\* sorted(S, reverse=True)
RECURSIVE Reversed(_)
Reversed(s) ==
    CHOOSE r \in { IF a = <<>> THEN <<>> ELSE Reversed(Tail(a)) \o <<Head(a)>> :
                     a \in {s} } : TRUE

sorted_reverse(S) == Reversed(sorted(S))

Range(s) == {s[i] : i \in 1..Len(s)}


(***************************************************************************)
(* Names used by the model: the default roles, the diarization labels of   *)
(* the inputs, and the texts of the input lines.                           *)
(***************************************************************************)
Agent == <<"A", "g", "e", "n", "t">>
Customer == <<"C", "u", "s", "t", "o", "m", "e", "r">>

\* classify_speakers: target_roles = ["Agent", "Customer"] when None is given
DefaultRoles == <<Agent, Customer>>

\* target_roles=None
None == <<>>

\* Diarization labels ("Speaker 1", "Speaker 10", ...), shortened.
S1 == <<"S", "1">>
S10 == <<"S", "1", "0">>
\* A label that occurs in no input transcript.
S5 == <<"S", "5">>
\* A role name that is in no target-role list.
Bogus == <<"X">>

Hi == <<"h", "i">>

\* "<label>: <text>"
Utterance(label, text) == label \o <<COLON, SP>> \o text

\* The lines an input transcript is made of.
LineSet ==
    { Utterance(S1, Hi),                     \* "S1: hi"
      Utterance(S10, Hi),                    \* "S10: hi"
      Utterance(Agent, Utterance(S1, Hi)),   \* "Agent: S1: hi", a quoted label
      Utterance(Customer, Hi),               \* "Customer: hi"
      S1 \o <<SP, COLON, SP>> \o Hi,         \* "S1 : hi"
      <<>> }                                 \* blank line

\* Sequences of 1..n elements of S.
SeqsUpTo(S, n) == UNION { [1..k -> S] : k \in 1..n }

\* The input transcripts: 1..MaxLines lines joined by "\n".
Transcripts == { Join(<<NL>>, ls) : ls \in SeqsUpTo(LineSet, MaxLines) }

\* The target_roles arguments.
RoleArgs == { None }

(***************************************************************************)
(* Label Extractor.                                                        *)
(***************************************************************************)
\* re.match(r'^([^:]+):', line): group(1) of the match, <<>> when no match.
\* [^:]+ takes at least one character and stops before the first colon.
MatchLabel(line) ==
    CHOOSE r \in { IF i >= 2 THEN SubSeq(a, 1, i - 1) ELSE <<>> :
                     a \in {line}, i \in {Index(line, COLON)} } : TRUE

\* Mutant: the matched group is taken as it stands, untrimmed.
extract_speaker_labels_untrimmed(text) ==
    LET lines == Split(text)
        stripped == [i \in 1..Len(lines) |-> Strip(lines[i])]
    IN  { MatchLabel(stripped[i]) :
            i \in { j \in 1..Len(lines) :
                      stripped[j] # <<>> /\ MatchLabel(stripped[j]) # <<>> } }

extract_speaker_labels(text) ==
    CHOOSE labels \in
      { { Strip(MatchLabel(stripped[i])) :
            i \in { j \in 1..Len(stripped) :
                      stripped[j] # <<>> /\ MatchLabel(stripped[j]) # <<>> } } :
          stripped \in { CHOOSE t \in { [i \in 1..Len(lines) |-> Strip(lines[i])] :
                                          lines \in {Split(text)} } : TRUE } } : TRUE

\* Mutant: the target roles are not taken out of the label set.
identify_non_target_labels_keeps_roles(text, roles) == extract_speaker_labels(text)

identify_non_target_labels(text, roles) ==
    CHOOSE r \in { { label \in labels : label \notin Range(roles) } :
                     labels \in {extract_speaker_labels(text)} } : TRUE


(***************************************************************************)
(* The reasoning service's replies to the mapping request.                 *)
(***************************************************************************)
EmptyMapping == [k \in {} |-> <<>>]

\* A JSON object of label -> role strings, as json.loads returns it.
ObjectReply(m) == [kind |-> "object", mapping |-> m]

\* The objects the service may answer with: any sub-map of the transcript's
\* labels to target roles, with or without the absent label S5 as a key, and
\* the map of every label to a name that is no target role.
ReplyMappings(text, roles) ==
    CHOOSE r \in
      { LET keysets == SUBSET labels
            plain == UNION { [K -> Range(roles)] : K \in keysets }
            extra == { [k \in DOMAIN m \cup {S5} |-> IF k = S5 THEN roles[2] ELSE m[k]] :
                         m \in plain }
        IN  plain \cup extra \cup { [k \in labels |-> Bogus] } :
          labels \in {extract_speaker_labels(text)} } : TRUE

\* kind "object": valid JSON object; "non_object": valid JSON that is no object
\* (null, a list, a number); "empty": empty content; "malformed": content
\* json.loads rejects; "call_failed": the call itself raised.
Replies(text, roles) ==
    { ObjectReply(m) : m \in ReplyMappings(text, roles) }
      \cup { [kind |-> k, mapping |-> EmptyMapping] :
               k \in {"non_object", "empty", "malformed", "call_failed"} }

NoReply == [kind |-> "none", mapping |-> EmptyMapping]

(***************************************************************************)
(* State of one classify_speakers invocation.                              *)
(***************************************************************************)
VARIABLES
    transcript,         \* argument transcript
    target_roles,       \* argument target_roles, the default once resolved
    enable_safeguard,   \* argument enable_safeguard
    api_key,            \* TRUE iff OPENAI_API_KEY is set in the environment
    pc,                 \* position in classify_speakers
    log,                \* the log list
    reply,              \* the service's reply to the mapping request
    mapping,            \* the value _call_gpt5_api returned
    result_transcript,  \* local result_transcript
    error,              \* the exception raised, kind "none" while none is
    calls,              \* number of service calls issued
    current_transcript, \* run_safeguard_validation: local current_transcript
    corrections_made,   \* run_safeguard_validation: local corrections_made
    iteration,          \* run_safeguard_validation: loop variable iteration
    prompt,             \* run_safeguard_validation: local prompt
    tool_calls,         \* message.tool_calls still to be processed
    requests,           \* the prompts of the review requests sent so far
    service,            \* the tool calls the reasoning service may issue
    peer,               \* a second invocation, suspended between two steps
    caller,             \* the glue that called classify_speakers, its input
    response,           \* what that glue gave back
    call                \* a helper called on its own: arguments and result

\* The locals of run_safeguard_validation.
svars == <<current_transcript, corrections_made, iteration, prompt, tool_calls,
           requests>>

\* What lies outside one invocation.
xvars == <<service, peer, caller, response, call>>

vars == <<transcript, target_roles, enable_safeguard, api_key, pc, log, reply,
          mapping, result_transcript, error, calls, svars, xvars>>

NoPeer == [pc |-> "none"]
NoCaller == [kind |-> "none"]
NoResponse == [kind |-> "none"]
NoCall == [fn |-> "none"]

\* One invocation alone, called directly.
Alone ==
    /\ peer = NoPeer
    /\ caller = NoCaller
    /\ response = NoResponse
    /\ call = NoCall

NoPrompt == [kind |-> "none", transcript |-> <<>>]

\* run_safeguard_validation has not been entered.
SafeguardIdle ==
    /\ current_transcript = <<>>
    /\ corrections_made = <<>>
    /\ iteration = 0
    /\ prompt = NoPrompt
    /\ tool_calls = <<>>
    /\ requests = <<>>

NoError == [kind |-> "none", text |-> "", names |-> <<>>]

Raise(kind, text, names) == [kind |-> kind, text |-> text, names |-> names]

Init ==
    /\ transcript \in Transcripts
    /\ target_roles \in RoleArgs
    /\ enable_safeguard \in BOOLEAN
    /\ api_key \in BOOLEAN
    /\ pc = "start"
    /\ log = <<>>
    /\ reply = NoReply
    /\ mapping = NoReply
    /\ result_transcript = <<>>
    /\ error = NoError
    /\ calls = 0
    /\ SafeguardIdle
    /\ service = {}
    /\ Alone


(***************************************************************************)
(* Role Mapper: _call_gpt5_api.                                            *)
(***************************************************************************)
\* Mutant: a failed call is re-raised as it is, without an error entry.
call_gpt5_api_unwrapped(r) ==
    CASE r.kind = "empty" ->
           [entries |-> << [step |-> "error", error |-> "API returned empty response"] >>,
            returned |-> NoReply,
            error |-> Raise("InvalidJSONResponseError", "API returned empty response", <<>>)]
      [] r.kind = "malformed" ->
           [entries |-> << [step |-> "error", error |-> "JSON decode error"] >>,
            returned |-> NoReply,
            error |-> Raise("InvalidJSONResponseError",
                            "Failed to parse JSON response from API", <<>>)]
      [] r.kind = "call_failed" ->
           [entries |-> <<>>,
            returned |-> NoReply,
            error |-> Raise("APIError", "service error", <<>>)]
      [] OTHER ->
           [entries |-> << [step |-> "mapping_decision", mapping |-> r] >>,
            returned |-> r,
            error |-> NoError]

\* What _call_gpt5_api does with the service's reply r (the try block and
\* its two except clauses): the log entries appended, the value returned and
\* the exception raised.
call_gpt5_api(r) ==
    CASE r.kind = "empty" ->
           \* raised inside the try, caught by "except Exception", re-raised
           [entries |-> << [step |-> "error", error |-> "API returned empty response"] >>,
            returned |-> NoReply,
            error |-> Raise("InvalidJSONResponseError", "API returned empty response", <<>>)]
      [] r.kind = "malformed" ->
           [entries |-> << [step |-> "error", error |-> "JSON decode error"] >>,
            returned |-> NoReply,
            error |-> Raise("InvalidJSONResponseError",
                            "Failed to parse JSON response from API", <<>>)]
      [] r.kind = "call_failed" ->
           [entries |-> << [step |-> "error", error |-> "service error"] >>,
            returned |-> NoReply,
            error |-> Raise("InvalidJSONResponseError", "API call failed", <<>>)]
      [] OTHER ->
           \* json.loads succeeded: whatever it produced is logged and returned
           [entries |-> << [step |-> "mapping_decision", mapping |-> r] >>,
            returned |-> r,
            error |-> NoError]

(***************************************************************************)
(* Mapping Validator: _validate_mapping.                                   *)
(***************************************************************************)
\* Mutant: the extraneous-key check runs before the missing-label check.
validate_mapping_extra_first(text, m, roles) ==
    IF m.kind # "object"
    THEN Raise("AttributeError", "object has no attribute 'keys'", <<>>)
    ELSE LET non_target_labels == identify_non_target_labels(text, roles)
             speakers_in_mapping == DOMAIN m.mapping
             unmapped_speakers == non_target_labels \ speakers_in_mapping
             all_labels == extract_speaker_labels(text)
             extra_speakers == speakers_in_mapping \ all_labels
         IN  IF extra_speakers # {}
             THEN Raise("SpeakerNotFoundError",
                        "Mapped speakers not found in transcript: ",
                        Join(<<",", SP>>, sorted(extra_speakers)))
             ELSE IF unmapped_speakers # {}
             THEN Raise("MissingSpeakerMappingError",
                        "Not all speakers are mapped. Missing: ",
                        Join(<<",", SP>>, sorted(unmapped_speakers)))
             ELSE NoError

\* Mutant: keys that are no label of the transcript are not rejected.
validate_mapping_no_extra_check(text, m, roles) ==
    IF m.kind # "object"
    THEN Raise("AttributeError", "object has no attribute 'keys'", <<>>)
    ELSE LET non_target_labels == identify_non_target_labels(text, roles)
             unmapped_speakers == non_target_labels \ DOMAIN m.mapping
         IN  IF unmapped_speakers # {}
             THEN Raise("MissingSpeakerMappingError",
                        "Not all speakers are mapped. Missing: ",
                        Join(<<",", SP>>, sorted(unmapped_speakers)))
             ELSE NoError

\* The exception _validate_mapping raises, NoError when it returns.
validate_mapping(text, m, roles) ==
    IF m.kind # "object"
    THEN \* mapping.keys() on None, a list or a number
         Raise("AttributeError", "object has no attribute 'keys'", <<>>)
    ELSE CHOOSE e \in
           { LET speakers_in_mapping == DOMAIN m.mapping
                 unmapped_speakers == non_target_labels \ speakers_in_mapping
                 extra_speakers == speakers_in_mapping \ all_labels
             IN  IF unmapped_speakers # {}
                 THEN Raise("MissingSpeakerMappingError",
                            "Not all speakers are mapped. Missing: ",
                            Join(<<",", SP>>, sorted(unmapped_speakers)))
                 ELSE IF extra_speakers # {}
                 THEN Raise("SpeakerNotFoundError",
                            "Mapped speakers not found in transcript: ",
                            Join(<<",", SP>>, sorted(extra_speakers)))
                 ELSE NoError :
               non_target_labels \in {identify_non_target_labels(text, roles)},
               all_labels \in {extract_speaker_labels(text)} } : TRUE

(***************************************************************************)
(* Label Substitution Engine: _replace_speakers.                           *)
(***************************************************************************)
\* s.replace(old, new, 1): the first occurrence only
RECURSIVE ReplaceFirstFrom(_, _, _, _)
ReplaceFirstFrom(s, old, new, i) ==
    CHOOSE r \in { IF k > Len(a) THEN <<>>
                   ELSE IF StartsWithAt(a, o, k) THEN n \o Drop(a, k + Len(o))
                   ELSE <<a[k]>> \o ReplaceFirstFrom(a, o, n, k + 1) :
                     a \in {s}, o \in {old}, n \in {new}, k \in {i} } : TRUE

RECURSIVE ReplaceFirstLoop(_, _, _, _)
ReplaceFirstLoop(keys, m, result, replacements_made) ==
    IF keys = <<>>
    THEN [result |-> result, replacements |-> replacements_made]
    ELSE LET speaker_label == Head(keys)
             role == m[speaker_label]
             old_pattern == speaker_label \o <<COLON>>
             new_pattern == role \o <<COLON>>
         IN  IF Contains(result, old_pattern)
             THEN ReplaceFirstLoop(Tail(keys), m,
                                   ReplaceFirstFrom(result, old_pattern, new_pattern, 1),
                                   Append(replacements_made,
                                          [from |-> speaker_label, to |-> role,
                                           occurrences |-> Count(result, old_pattern)]))
             ELSE ReplaceFirstLoop(Tail(keys), m, result, replacements_made)

\* Mutant: an element is recorded for every key, found or not.
RECURSIVE ReplaceLoop_recording_all(_, _, _, _)
ReplaceLoop_recording_all(keys, m, result, replacements_made) ==
    IF keys = <<>>
    THEN [result |-> result, replacements |-> replacements_made]
    ELSE LET speaker_label == Head(keys)
             role == m[speaker_label]
             old_pattern == speaker_label \o <<COLON>>
             new_pattern == role \o <<COLON>>
         IN  ReplaceLoop_recording_all(
                 Tail(keys), m, Replace(result, old_pattern, new_pattern),
                 Append(replacements_made,
                        [from |-> speaker_label, to |-> role,
                         occurrences |-> Count(result, old_pattern)]))

\* The loop over the keys, in the order given.
RECURSIVE ReplaceLoop(_, _, _, _)
ReplaceLoop(keys, m, result, replacements_made) ==
    CHOOSE r \in
      { IF ks = <<>>
        THEN [result |-> text, replacements |-> made]
        ELSE LET speaker_label == Head(ks)
                 role == m[speaker_label]
                 old_pattern == speaker_label \o <<COLON>>
                 new_pattern == role \o <<COLON>>
             IN  IF Contains(text, old_pattern)
                 THEN ReplaceLoop(Tail(ks), m, Replace(text, old_pattern, new_pattern),
                                  Append(made,
                                         [from |-> speaker_label, to |-> role,
                                          occurrences |-> Count(text, old_pattern)]))
                 ELSE ReplaceLoop(Tail(ks), m, text, made) :
          ks \in {keys}, text \in {result}, made \in {replacements_made} } : TRUE

\* Mutant: each label's first occurrence only is replaced.
replace_speakers_first_occurrence(text, m) ==
    ReplaceFirstLoop(sorted_reverse(DOMAIN m), m, text, <<>>)

\* The new transcript and the replacements list of the label_replacement entry.
replace_speakers(text, m) == ReplaceLoop(sorted_reverse(DOMAIN m), m, text, <<>>)

(***************************************************************************)
(* Classification Orchestrator: classify_speakers, step by step.           *)
(***************************************************************************)
\* target_roles default, log = [], the configuration entry.
Configure ==
    /\ pc = "start"
    /\ LET roles == IF target_roles = None THEN DefaultRoles ELSE target_roles
       IN  /\ target_roles' = roles
           /\ log' = << [step |-> "configuration", target_roles |-> roles,
                         enable_safeguard |-> enable_safeguard] >>
    /\ pc' = "analysis"
    /\ UNCHANGED <<transcript, enable_safeguard, api_key, reply, mapping,
                   result_transcript, error, calls>>
    /\ UNCHANGED svars
    /\ UNCHANGED xvars

\* Mutant: the Role Mapper is invoked whatever the labels are.
LabelAnalysis_always_maps ==
    /\ pc = "analysis"
    /\ log' = Append(log, [step |-> "label_analysis",
                           all_labels |-> extract_speaker_labels(transcript),
                           target_roles |-> target_roles,
                           non_target_labels |->
                             identify_non_target_labels(transcript, target_roles)])
    /\ pc' = "mapper"
    /\ result_transcript' = transcript
    /\ UNCHANGED <<transcript, target_roles, enable_safeguard, api_key, reply,
                   mapping, error, calls>>
    /\ UNCHANGED svars
    /\ UNCHANGED xvars

\* non_target_labels, the label_analysis entry, result_transcript = transcript.
LabelAnalysis ==
    /\ pc = "analysis"
    /\ \E non_target_labels \in {identify_non_target_labels(transcript, target_roles)} :
           /\ log' = Append(log, [step |-> "label_analysis",
                                  all_labels |-> extract_speaker_labels(transcript),
                                  target_roles |-> target_roles,
                                  non_target_labels |-> non_target_labels])
           /\ pc' = IF non_target_labels # {} THEN "mapper" ELSE "safeguard"
    /\ result_transcript' = transcript
    /\ UNCHANGED <<transcript, target_roles, enable_safeguard, api_key, reply,
                   mapping, error, calls>>
    /\ UNCHANGED svars
    /\ UNCHANGED xvars

\* Mutant: the request is issued without a mapping_request entry.
MappingRequest_unlogged ==
    /\ pc = "mapper"
    /\ IF ~api_key
       THEN /\ error' = Raise("ValueError",
                              "OPENAI_API_KEY environment variable is not set", <<>>)
            /\ pc' = "failed"
       ELSE /\ pc' = "calling"
            /\ UNCHANGED error
    /\ UNCHANGED <<transcript, target_roles, enable_safeguard, api_key, log, reply,
                   mapping, result_transcript, calls, svars>>
    /\ UNCHANGED xvars

\* _call_gpt5_api up to the service call: the credential check, the prompt,
\* the mapping_request entry.
MappingRequest ==
    /\ pc = "mapper"
    /\ IF ~api_key
       THEN /\ error' = Raise("ValueError",
                              "OPENAI_API_KEY environment variable is not set", <<>>)
            /\ pc' = "failed"
            /\ UNCHANGED log
       ELSE /\ log' = Append(log, [step |-> "mapping_request",
                                   target_roles |-> target_roles,
                                   labels_to_map |->
                                     identify_non_target_labels(transcript, target_roles)])
            /\ pc' = "calling"
            /\ UNCHANGED error
    /\ UNCHANGED <<transcript, target_roles, enable_safeguard, api_key, reply,
                   mapping, result_transcript, calls>>
    /\ UNCHANGED svars
    /\ UNCHANGED xvars

\* Mutant: a reply that fails is asked for once more.
ServiceReply_retrying ==
    /\ pc = "calling"
    /\ \E r \in Replies(transcript, target_roles) :
         LET out == call_gpt5_api(r)
         IN  /\ reply' = r
             /\ log' = log \o out.entries
             /\ mapping' = out.returned
             /\ error' = IF out.error.kind # "none" /\ calls = 0 THEN NoError ELSE out.error
             /\ pc' = IF out.error.kind = "none" THEN "validate"
                      ELSE IF calls = 0 THEN "calling" ELSE "failed"
    /\ calls' = calls + 1
    /\ UNCHANGED <<transcript, target_roles, enable_safeguard, api_key,
                   result_transcript>>
    /\ UNCHANGED svars
    /\ UNCHANGED xvars

\* The service call and the handling of its reply.
ServiceReply ==
    /\ pc = "calling"
    /\ \E r \in Replies(transcript, target_roles) :
         \E out \in {call_gpt5_api(r)} :
             /\ reply' = r
             /\ log' = log \o out.entries
             /\ mapping' = out.returned
             /\ error' = out.error
             /\ pc' = IF out.error.kind = "none" THEN "validate" ELSE "failed"
    /\ calls' = calls + 1
    /\ UNCHANGED <<transcript, target_roles, enable_safeguard, api_key,
                   result_transcript>>
    /\ UNCHANGED svars
    /\ UNCHANGED xvars

\* Mutant: the validator logs its verdict.
ValidateMapping_logging ==
    /\ pc = "validate"
    /\ LET e == validate_mapping(transcript, mapping, target_roles)
       IN  /\ error' = e
           /\ pc' = IF e.kind = "none" THEN "replace" ELSE "failed"
           /\ log' = Append(log, [step |-> "validation", error |-> e.kind])
    /\ UNCHANGED <<transcript, target_roles, enable_safeguard, api_key, reply,
                   mapping, result_transcript, calls>>
    /\ UNCHANGED svars
    /\ UNCHANGED xvars

\* _validate_mapping(transcript, mapping, target_roles)
ValidateMapping ==
    /\ pc = "validate"
    /\ \E e \in {validate_mapping(transcript, mapping, target_roles)} :
           /\ error' = e
           /\ pc' = IF e.kind = "none" THEN "replace" ELSE "failed"
    /\ UNCHANGED <<transcript, target_roles, enable_safeguard, api_key, log, reply,
                   mapping, result_transcript, calls>>
    /\ UNCHANGED svars
    /\ UNCHANGED xvars

\* Mutant: the label_replacement entry is written over the last entry.
ReplaceSpeakers_overwrites ==
    /\ pc = "replace"
    /\ LET out == replace_speakers(transcript, mapping.mapping)
       IN  /\ result_transcript' = out.result
           /\ log' = [log EXCEPT ![Len(log)] =
                         [step |-> "label_replacement",
                          replacements |-> out.replacements]]
    /\ pc' = "safeguard"
    /\ UNCHANGED <<transcript, target_roles, enable_safeguard, api_key, reply,
                   mapping, error, calls>>
    /\ UNCHANGED svars
    /\ UNCHANGED xvars

\* result_transcript = _replace_speakers(transcript, mapping, log)
ReplaceSpeakers ==
    /\ pc = "replace"
    /\ \E out \in {replace_speakers(transcript, mapping.mapping)} :
           /\ result_transcript' = out.result
           /\ log' = Append(log, [step |-> "label_replacement",
                                  replacements |-> out.replacements])
    /\ pc' = "safeguard"
    /\ UNCHANGED <<transcript, target_roles, enable_safeguard, api_key, reply,
                   mapping, error, calls>>
    /\ UNCHANGED svars
    /\ UNCHANGED xvars

\* The safeguard stage of classify_speakers and its return.
SafeguardStage ==
    /\ pc = "safeguard"
    /\ log' = IF enable_safeguard
              THEN Append(log, [step |-> "safeguard", status |-> "not_yet_implemented"])
              ELSE log
    /\ pc' = "done"
    /\ UNCHANGED <<transcript, target_roles, enable_safeguard, api_key, reply,
                   mapping, result_transcript, error, calls>>
    /\ UNCHANGED svars
    /\ UNCHANGED xvars

Next ==
    \/ Configure
    \/ LabelAnalysis
    \/ MappingRequest
    \/ ServiceReply
    \/ ValidateMapping
    \/ ReplaceSpeakers
    \/ SafeguardStage

Spec == Init /\ [][Next]_vars


(***************************************************************************)
(* Safeguard Corrector: safeguard.py.                                      *)
(***************************************************************************)
\* Mutant: one more iteration is allowed.
more_iterations == 3 + 1

max_iterations == 3
max_words == 10

\* Bounds of the safeguard runs explored.
MaxSafeguardLines == 2
MaxToolCalls == 3

\* str.lower(), on the letters that occur
Lower(c) ==
    CASE c = "A" -> "a"
      [] c = "C" -> "c"
      [] c = "H" -> "h"
      [] c = "I" -> "i"
      [] c = "S" -> "s"
      [] c = "X" -> "x"
      [] OTHER -> c

lower(s) == CHOOSE r \in { [i \in 1..Len(a) |-> Lower(a[i])] : a \in {s} } : TRUE

\* the end of the word that begins at position i of s
RECURSIVE WordEnd(_, _)
WordEnd(s, i) ==
    CHOOSE r \in { IF k > Len(a) \/ IsSpace(a[k]) THEN k ELSE WordEnd(a, k + 1) :
                     a \in {s}, k \in {i} } : TRUE

\* the words of s[i:]
RECURSIVE WordsFrom(_, _)
WordsFrom(s, i) ==
    CHOOSE r \in { IF k > Len(a) THEN <<>>
                   ELSE IF IsSpace(a[k]) THEN WordsFrom(a, k + 1)
                   ELSE <<SubSeq(a, k, e - 1)>> \o WordsFrom(a, e) :
                     a \in {s}, k \in {i}, e \in {WordEnd(s, i)} } : TRUE

\* s.split(): the words between runs of whitespace
split_words(s) == WordsFrom(s, 1)

\* s[:n]
Take(s, n) ==
    CHOOSE r \in { SubSeq(a, 1, IF k < Len(a) THEN k ELSE Len(a)) :
                     a \in {s}, k \in {n} } : TRUE

\* Mutant: every occurrence on the line is replaced.
replace_every(s, old, new) == Replace(s, old, new)

\* s.replace(old, new, 1)
replace_first(s, old, new) == ReplaceFirstFrom(s, old, new, 1)

NotFound == [found |-> FALSE]

\* Mutant: the utterance is located by its role alone.
find_utterance_by_role(text, current_role, utterance_prefix) ==
    LET lines == Split(text)
        hits == { i \in 1..Len(lines) :
                    StartsWithAt(Strip(lines[i]), current_role \o <<COLON>>, 1) }
    IN  IF hits = {} THEN NotFound
        ELSE LET i == CHOOSE k \in hits : \A h \in hits : k <= h
             IN  [found |-> TRUE, line_index |-> i - 1, full_line |-> Strip(lines[i])]

\* Mutant: a prefix without a word matches no line.
find_utterance_requiring_words(text, current_role, utterance_prefix) ==
    LET lines == Split(text)
        prefix_words == Take(split_words(lower(Strip(utterance_prefix))), max_words)
        role_colon == current_role \o <<COLON>>
        Matches(i) ==
            LET line == Strip(lines[i])
            IN  /\ line # <<>>
                /\ prefix_words # <<>>
                /\ StartsWithAt(line, role_colon, 1)
                /\ LET text_after_role == Strip(Drop(line, Len(role_colon) + 1))
                       text_words == Take(split_words(lower(text_after_role)), max_words)
                   IN  Take(text_words, Len(prefix_words)) = prefix_words
        hits == { i \in 1..Len(lines) : Matches(i) }
    IN  IF hits = {} THEN NotFound
        ELSE LET i == CHOOSE k \in hits : \A h \in hits : k <= h
             IN  [found |-> TRUE, line_index |-> i - 1, full_line |-> Strip(lines[i])]

\* _find_utterance_by_prefix: the first line, in document order, that starts
\* with "<current_role>:" and whose first words are those of the prefix.
\* line_index counts from 0, as enumerate does.
find_utterance_by_prefix(text, current_role, utterance_prefix) ==
    CHOOSE found \in
      { LET Matches(i) ==
                \E line \in {Strip(lines[i])} :
                  /\ line # <<>>
                  /\ StartsWithAt(line, role_colon, 1)
                  /\ LET text_after_role == Strip(Drop(line, Len(role_colon) + 1))
                         text_words == Take(split_words(lower(text_after_role)),
                                            max_words)
                     IN  Take(text_words, Len(prefix_words)) = prefix_words
        IN  CHOOSE r \in
              { IF hits = {} THEN NotFound
                ELSE LET i == CHOOSE k \in hits : \A h \in hits : k <= h
                     IN  [found |-> TRUE, line_index |-> i - 1,
                          full_line |-> Strip(lines[i])] :
                  hits \in { { i \in 1..Len(lines) : Matches(i) } } } : TRUE :
          lines \in {Split(text)},
          prefix_words \in {Take(split_words(lower(Strip(utterance_prefix))),
                                 max_words)},
          role_colon \in {current_role \o <<COLON>>} } : TRUE

\* _correct_single_utterance: the corrected transcript and the entry logged.
correct_single_utterance(text, line_index, old_role, new_role) ==
    CHOOSE r \in
      { IF line_index >= Len(lines)
        THEN [transcript |-> text,
              entries |-> << [step |-> "correction_error", line_index |-> line_index] >>]
        ELSE LET old_line == lines[line_index + 1]
             IN  CHOOSE c \in
                   { [transcript |->
                          Join(<<NL>>, [lines EXCEPT ![line_index + 1] = new_line]),
                      entries |-> << [step |-> "utterance_corrected",
                                      line_index |-> line_index,
                                      old_role |-> old_role,
                                      new_role |-> new_role,
                                      old_line |-> old_line,
                                      new_line |-> new_line] >>] :
                       new_line \in {replace_first(old_line, old_role \o <<COLON>>,
                                                   new_role \o <<COLON>>)} } : TRUE :
          lines \in {Split(text)} } : TRUE

\* Inputs of the safeguard: transcripts that are already role-labelled, with
\* a blank line, a line without a colon, a line that is indented and quotes
\* its own label, and a line whose text no tool call's prefix matches.
Quoting == <<SP>> \o Utterance(Agent, Hi) \o <<SP>> \o Utterance(Agent, Hi)

\* an utterance text that begins with another word than Hi
OtherText == <<"X">>

SafeguardLineSet ==
    { Utterance(Agent, Hi), Utterance(Customer, OtherText), Quoting, <<>>, Hi }

SafeguardTranscripts ==
    { Join(<<NL>>, ls) : ls \in SeqsUpTo(SafeguardLineSet, MaxSafeguardLines) }

\* The tool calls the service may issue.
Reason == <<"r">>

ToolCall(current_role, utterance_prefix, correct_role) ==
    [function |-> "correct_speaker_role",
     arguments |-> [kind |-> "object",
                    current_role |-> current_role,
                    utterance_prefix |-> utterance_prefix,
                    correct_role |-> correct_role,
                    reason |-> Reason]]

\* a tool call whose arguments are no JSON text
MalformedToolCall ==
    [function |-> "correct_speaker_role", arguments |-> [kind |-> "malformed"]]

ToolCallSet ==
    { ToolCall(Agent, Hi, Customer),
      ToolCall(Customer, Hi, Agent),
      MalformedToolCall }

\* tool_call entries logged so far
ToolCallsSoFar == Cardinality({ i \in 1..Len(log) : log[i].step = "tool_call" })

\* The replies to a review request: the call fails, a message without tool
\* calls, a message with tool calls.
ReviewReplies ==
    { [kind |-> "call_failed", tool_calls |-> <<>>],
      [kind |-> "message", tool_calls |-> <<>>] }
    \cup { [kind |-> "message", tool_calls |-> tcs] :
             tcs \in SeqsUpTo(service, MaxToolCalls - ToolCallsSoFar) }

\* Mutant: the prompt is rebuilt around the transcript passed in.
UpdatedPromptStale(text) == [kind |-> "updated", transcript |-> transcript]

InitialPrompt(text) == [kind |-> "initial", transcript |-> text]
UpdatedPrompt(text) == [kind |-> "updated", transcript |-> text]

\* the for loop's range(max_iterations)
in_range(i) == i < max_iterations

\* Mutant: the loop continues whether or not a correction was made.
loop_continues_regardless(corrections, i) == i < max_iterations - 1

\* "if corrections_made and iteration < max_iterations - 1": continue.
loop_continues(corrections, i) == corrections # <<>> /\ i < max_iterations - 1

\* Mutant: the exception leaves run_safeguard_validation.
on_exception_reraise(message) ==
    [entries |-> <<>>,
     next |-> "failed",
     error |-> Raise("Exception", message, <<>>)]

\* The except clause of the loop body: the entry logged, where the run goes
\* on, the exception that leaves run_safeguard_validation.
on_exception(message) ==
    [entries |-> << [step |-> "safeguard_error", error |-> message] >>,
     next |-> "sg_end",
     error |-> NoError]

\* Mutant: a reply without tool calls does not end the loop.
on_no_tool_calls_goes_on(corrections) ==
    [entries |-> << [step |-> "safeguard_complete",
                     message |-> "No corrections needed",
                     total_corrections |-> Len(corrections)] >>,
     next |-> "sg_loop"]

\* The else branch of "if message.tool_calls".
on_no_tool_calls(corrections) ==
    [entries |-> << [step |-> "safeguard_complete",
                     message |-> IF corrections = <<>> THEN "No corrections needed"
                                 ELSE "All corrections completed",
                     total_corrections |-> Len(corrections)] >>,
     next |-> "sg_end"]

\* The body of "for tool_call in message.tool_calls" for one tool call, on
\* the current transcript: the transcript after it, the entries logged, the
\* corrections recorded, whether json.loads raised.
\* Mutant: a correction to the role the line already has is not made.
process_tool_call_skipping_same_role(text, tool_call) ==
    IF tool_call.arguments.kind # "object"
    THEN [raised |-> TRUE, transcript |-> text, entries |-> <<>>, corrections |-> <<>>]
    ELSE
    LET function_args == tool_call.arguments
        entry == [step |-> "tool_call", function |-> tool_call.function,
                  arguments |-> function_args]
        current_role == function_args.current_role
        utterance_prefix == function_args.utterance_prefix
        correct_role == function_args.correct_role
        found == find_utterance_by_prefix(text, current_role, utterance_prefix)
    IN  IF tool_call.function # "correct_speaker_role"
        THEN [raised |-> FALSE, transcript |-> text, entries |-> <<entry>>,
              corrections |-> <<>>]
        ELSE IF found.found /\ correct_role # current_role
        THEN LET out == correct_single_utterance(text, found.line_index,
                                                 current_role, correct_role)
             IN  [raised |-> FALSE,
                  transcript |-> out.transcript,
                  entries |-> <<entry>> \o out.entries,
                  corrections |-> << [current_role |-> current_role,
                                      correct_role |-> correct_role,
                                      reason |-> function_args.reason] >>]
        ELSE [raised |-> FALSE,
              transcript |-> text,
              entries |-> << entry,
                             [step |-> "utterance_not_found",
                              current_role |-> current_role,
                              prefix |-> utterance_prefix] >>,
              corrections |-> <<>>]

process_tool_call(text, tool_call) ==
    IF tool_call.arguments.kind # "object"
    THEN [raised |-> TRUE, transcript |-> text, entries |-> <<>>, corrections |-> <<>>]
    ELSE
    LET function_args == tool_call.arguments
        entry == [step |-> "tool_call", function |-> tool_call.function,
                  arguments |-> function_args]
        current_role == function_args.current_role
        utterance_prefix == function_args.utterance_prefix
        correct_role == function_args.correct_role
    IN  IF tool_call.function # "correct_speaker_role"
        THEN [raised |-> FALSE, transcript |-> text, entries |-> <<entry>>,
              corrections |-> <<>>]
        ELSE CHOOSE r \in
          { IF found.found
            THEN CHOOSE c \in
                   { [raised |-> FALSE,
                      transcript |-> out.transcript,
                      entries |-> <<entry>> \o out.entries,
                      corrections |-> << [current_role |-> current_role,
                                          correct_role |-> correct_role,
                                          reason |-> function_args.reason] >>] :
                       out \in {correct_single_utterance(text, found.line_index,
                                                         current_role, correct_role)} }
                   : TRUE
            ELSE [raised |-> FALSE,
                  transcript |-> text,
                  entries |-> << entry,
                                 [step |-> "utterance_not_found",
                                  current_role |-> current_role,
                                  prefix |-> utterance_prefix] >>,
                  corrections |-> <<>>] :
              found \in {find_utterance_by_prefix(text, current_role,
                                                  utterance_prefix)} } : TRUE

\* Mutant: the total counts the tool calls, not the corrections.
safeguard_end_entry_counting_calls(corrections) ==
    [step |-> "safeguard_end",
     corrections_made |-> corrections,
     total_corrections |-> ToolCallsSoFar]

\* The safeguard_end entry.
safeguard_end_entry(corrections) ==
    [step |-> "safeguard_end",
     corrections_made |-> corrections,
     total_corrections |-> Len(corrections)]

\* A run of run_safeguard_validation(transcript, target_roles, log).
SafeguardInit ==
    /\ transcript \in SafeguardTranscripts
    /\ target_roles = DefaultRoles
    /\ enable_safeguard = TRUE
    /\ api_key \in BOOLEAN
    /\ pc = "sg_start"
    /\ log = <<>>
    /\ reply = NoReply
    /\ mapping = NoReply
    /\ result_transcript = <<>>
    /\ error = NoError
    /\ calls = 0
    /\ SafeguardIdle
    /\ service = ToolCallSet
    /\ Alone

\* Mutant: the safeguard starts without looking at the credential.
SafeguardStart_unchecked ==
    /\ pc = "sg_start"
    /\ log' = Append(log, [step |-> "safeguard_start", target_roles |-> target_roles])
    /\ prompt' = InitialPrompt(transcript)
    /\ current_transcript' = transcript
    /\ corrections_made' = <<>>
    /\ iteration' = 0
    /\ pc' = "sg_loop"
    /\ UNCHANGED <<transcript, target_roles, enable_safeguard, api_key, reply,
                   mapping, result_transcript, calls, error, tool_calls, requests>>
    /\ UNCHANGED xvars

\* The credential check, the safeguard_start entry, the first prompt.
SafeguardStart ==
    /\ pc = "sg_start"
    /\ IF ~api_key
       THEN /\ error' = Raise("ValueError",
                              "OPENAI_API_KEY environment variable is not set", <<>>)
            /\ pc' = "failed"
            /\ UNCHANGED <<log, svars>>
       ELSE /\ log' = Append(log, [step |-> "safeguard_start",
                                   target_roles |-> target_roles])
            /\ prompt' = InitialPrompt(transcript)
            /\ current_transcript' = transcript
            /\ corrections_made' = <<>>
            /\ iteration' = 0
            /\ pc' = "sg_loop"
            /\ UNCHANGED <<error, tool_calls, requests>>
    /\ UNCHANGED <<transcript, target_roles, enable_safeguard, api_key, reply,
                   mapping, result_transcript, calls>>
    /\ UNCHANGED xvars

\* The head of the for loop and the safeguard_iteration entry.
SafeguardIteration ==
    /\ pc = "sg_loop"
    /\ IF in_range(iteration)
       THEN /\ log' = Append(log, [step |-> "safeguard_iteration",
                                   iteration |-> iteration + 1])
            /\ pc' = "sg_call"
       ELSE /\ pc' = "sg_end"
            /\ UNCHANGED log
    /\ UNCHANGED <<transcript, target_roles, enable_safeguard, api_key, reply,
                   mapping, result_transcript, error, calls, svars>>
    /\ UNCHANGED xvars

\* The review request and the service's reply to it.
ReviewReply ==
    /\ pc = "sg_call"
    /\ requests' = Append(requests, prompt)
    /\ calls' = calls + 1
    /\ \E r \in ReviewReplies :
         IF r.kind = "call_failed"
         THEN LET out == on_exception("service error")
              IN  /\ log' = log \o out.entries
                  /\ pc' = out.next
                  /\ error' = out.error
                  /\ UNCHANGED tool_calls
         ELSE IF r.tool_calls = <<>>
         THEN LET out == on_no_tool_calls(corrections_made)
              IN  /\ log' = log \o out.entries
                  /\ pc' = out.next
                  /\ UNCHANGED <<error, tool_calls>>
         ELSE /\ log' = Append(log, [step |-> "tool_calls_requested",
                                     count |-> Len(r.tool_calls)])
              /\ tool_calls' = r.tool_calls
              /\ pc' = "sg_tools"
              /\ UNCHANGED error
    /\ UNCHANGED <<transcript, target_roles, enable_safeguard, api_key, reply,
                   mapping, result_transcript, current_transcript,
                   corrections_made, iteration, prompt>>
    /\ UNCHANGED xvars

\* Mutant: the tool call is located in, and applied to, the transcript the
\* service was shown.
ProcessToolCall_on_shown_text ==
    /\ pc = "sg_tools"
    /\ tool_calls # <<>>
    /\ LET out == process_tool_call(prompt.transcript, Head(tool_calls))
       IN  IF out.raised
           THEN LET exc == on_exception("JSON decode error")
                IN  /\ log' = log \o exc.entries
                    /\ pc' = exc.next
                    /\ error' = exc.error
                    /\ tool_calls' = <<>>
                    /\ UNCHANGED <<current_transcript, corrections_made>>
           ELSE /\ log' = log \o out.entries
                /\ current_transcript' = out.transcript
                /\ corrections_made' = corrections_made \o out.corrections
                /\ tool_calls' = Tail(tool_calls)
                /\ UNCHANGED <<pc, error>>
    /\ UNCHANGED <<transcript, target_roles, enable_safeguard, api_key, reply,
                   mapping, result_transcript, calls, iteration, prompt, requests>>
    /\ UNCHANGED xvars

\* One turn of "for tool_call in message.tool_calls".
ProcessToolCall ==
    /\ pc = "sg_tools"
    /\ tool_calls # <<>>
    /\ \E out \in {process_tool_call(current_transcript, Head(tool_calls))} :
           IF out.raised
           THEN LET exc == on_exception("JSON decode error")
                IN  /\ log' = log \o exc.entries
                    /\ pc' = exc.next
                    /\ error' = exc.error
                    /\ tool_calls' = <<>>
                    /\ UNCHANGED <<current_transcript, corrections_made>>
           ELSE /\ log' = log \o out.entries
                /\ current_transcript' = out.transcript
                /\ corrections_made' = corrections_made \o out.corrections
                /\ tool_calls' = Tail(tool_calls)
                /\ UNCHANGED <<pc, error>>
    /\ UNCHANGED <<transcript, target_roles, enable_safeguard, api_key, reply,
                   mapping, result_transcript, calls, iteration, prompt, requests>>
    /\ UNCHANGED xvars

\* Mutant: "continue" repeats the tail of the loop body instead of going on
\* to the next iteration.
AfterToolCalls_repeating ==
    /\ pc = "sg_tools"
    /\ tool_calls = <<>>
    /\ IF loop_continues(corrections_made, iteration)
       THEN /\ prompt' = UpdatedPrompt(current_transcript)
            /\ UNCHANGED <<pc, iteration>>
       ELSE /\ pc' = "sg_end"
            /\ UNCHANGED <<prompt, iteration>>
    /\ UNCHANGED <<transcript, target_roles, enable_safeguard, api_key, log, reply,
                   mapping, result_transcript, error, calls, current_transcript,
                   corrections_made, tool_calls, requests>>
    /\ UNCHANGED xvars

\* After the last tool call of the reply: continue with the prompt rebuilt
\* around the current transcript, or break.
AfterToolCalls ==
    /\ pc = "sg_tools"
    /\ tool_calls = <<>>
    /\ IF loop_continues(corrections_made, iteration)
       THEN /\ prompt' = UpdatedPrompt(current_transcript)
            /\ iteration' = iteration + 1
            /\ pc' = "sg_loop"
       ELSE /\ pc' = "sg_end"
            /\ UNCHANGED <<prompt, iteration>>
    /\ UNCHANGED <<transcript, target_roles, enable_safeguard, api_key, log, reply,
                   mapping, result_transcript, error, calls, current_transcript,
                   corrections_made, tool_calls, requests>>
    /\ UNCHANGED xvars

\* The safeguard_end entry and the return of current_transcript.
SafeguardEnd ==
    /\ pc = "sg_end"
    /\ log' = Append(log, safeguard_end_entry(corrections_made))
    /\ result_transcript' = current_transcript
    /\ pc' = "done"
    /\ UNCHANGED <<transcript, target_roles, enable_safeguard, api_key, reply,
                   mapping, error, calls, svars>>
    /\ UNCHANGED xvars

SafeguardNext ==
    \/ SafeguardStart
    \/ SafeguardIteration
    \/ ReviewReply
    \/ ProcessToolCall
    \/ AfterToolCalls
    \/ SafeguardEnd

SafeguardSpec == SafeguardInit /\ [][SafeguardNext]_vars

\* A service that does not keep to the tool's description: a correct_role
\* that is no target role, a correct_role equal to the current role, a
\* prefix of whitespace only.
LooseToolCallSet ==
    { ToolCall(Agent, Hi, Bogus),
      ToolCall(Agent, Hi, Agent),
      ToolCall(Customer, <<SP>>, Agent) }

LooseServiceInit ==
    /\ transcript \in SafeguardTranscripts
    /\ target_roles = DefaultRoles
    /\ enable_safeguard = TRUE
    /\ api_key \in BOOLEAN
    /\ pc = "sg_start"
    /\ log = <<>>
    /\ reply = NoReply
    /\ mapping = NoReply
    /\ result_transcript = <<>>
    /\ error = NoError
    /\ calls = 0
    /\ SafeguardIdle
    /\ service = LooseToolCallSet
    /\ Alone

LooseServiceSpec == LooseServiceInit /\ [][SafeguardNext]_vars

\* Either entry point: classify_speakers or run_safeguard_validation.
EntryInit == Init \/ SafeguardInit

EntryNext == Next \/ SafeguardNext

EntrySpec == EntryInit /\ [][EntryNext]_vars

\* Either entry point run to its end: the program is sequential, so a step
\* that can be taken is taken, and a pending service call returns a reply or
\* fails.
LiveEntrySpec == EntryInit /\ [][EntryNext]_vars /\ WF_vars(EntryNext)

(***************************************************************************)
(* Two classify_speakers invocations, interleaved between their steps.     *)
(* One runs on the invocation variables, the other is suspended in peer;   *)
(* the credential is the environment's and is the same for both.           *)
(***************************************************************************)
PairTranscripts ==
    { Utterance(S1, Hi),
      Utterance(Customer, Hi),
      Join(<<NL>>, << Utterance(S1, Hi), Utterance(S10, Hi) >>) }

\* The locals and arguments of the running invocation.
Invocation ==
    [transcript |-> transcript,
     target_roles |-> target_roles,
     enable_safeguard |-> enable_safeguard,
     pc |-> pc,
     log |-> log,
     reply |-> reply,
     mapping |-> mapping,
     result_transcript |-> result_transcript,
     error |-> error,
     calls |-> calls]

PairInit ==
    /\ transcript \in PairTranscripts
    /\ target_roles \in RoleArgs
    /\ enable_safeguard \in BOOLEAN
    /\ api_key \in BOOLEAN
    /\ pc = "start"
    /\ log = <<>>
    /\ reply = NoReply
    /\ mapping = NoReply
    /\ result_transcript = <<>>
    /\ error = NoError
    /\ calls = 0
    /\ SafeguardIdle
    /\ service = {}
    /\ \E t \in PairTranscripts, sg \in BOOLEAN :
         peer = [transcript |-> t,
                 target_roles |-> None,
                 enable_safeguard |-> sg,
                 pc |-> "start",
                 log |-> <<>>,
                 reply |-> NoReply,
                 mapping |-> NoReply,
                 result_transcript |-> <<>>,
                 error |-> NoError,
                 calls |-> 0]
    /\ caller = NoCaller
    /\ response = NoResponse
    /\ call = NoCall

\* Mutant: the log is one list, shared by the two invocations.
Switch_shared_log ==
    /\ peer # NoPeer
    /\ transcript' = peer.transcript
    /\ target_roles' = peer.target_roles
    /\ enable_safeguard' = peer.enable_safeguard
    /\ pc' = peer.pc
    /\ reply' = peer.reply
    /\ mapping' = peer.mapping
    /\ result_transcript' = peer.result_transcript
    /\ error' = peer.error
    /\ calls' = peer.calls
    /\ peer' = [Invocation EXCEPT !.log = peer.log]
    /\ UNCHANGED <<log, api_key, svars, service, caller, response, call>>

\* The running invocation is suspended and the other one resumed: each has
\* its own arguments and locals, log included.
Switch ==
    /\ peer # NoPeer
    /\ transcript' = peer.transcript
    /\ target_roles' = peer.target_roles
    /\ enable_safeguard' = peer.enable_safeguard
    /\ pc' = peer.pc
    /\ log' = peer.log
    /\ reply' = peer.reply
    /\ mapping' = peer.mapping
    /\ result_transcript' = peer.result_transcript
    /\ error' = peer.error
    /\ calls' = peer.calls
    /\ peer' = Invocation
    /\ UNCHANGED <<api_key, svars, service, caller, response, call>>

PairNext == Next \/ Switch

PairSpec == PairInit /\ [][PairNext]_vars

(***************************************************************************)
(* The glue around classify_speakers: lambda_handler (handler.py) and the  *)
(* CLI's main (cli.py).  Both call classify_speakers(transcript) with the  *)
(* default roles and the safeguard off.                                    *)
(***************************************************************************)
\* The transcript field of the request, the content of the input file.
GlueTranscripts ==
    { <<>>, <<SP, NL>>, Utterance(S1, Hi), Utterance(Customer, Hi) }

\* A Lambda event: a Function URL request whose body is JSON text, a direct
\* invocation whose event is the body, a body that is no JSON, a body
\* without the transcript field.
LambdaEvents == { "function_url", "direct", "invalid_json", "missing_field" }

Callers ==
    { [kind |-> "lambda", event |-> ev] : ev \in LambdaEvents }
      \cup { [kind |-> "cli"] }

GlueInit ==
    /\ transcript \in GlueTranscripts
    /\ target_roles = None
    /\ enable_safeguard = FALSE
    /\ api_key \in BOOLEAN
    /\ pc = "glue"
    /\ log = <<>>
    /\ reply = NoReply
    /\ mapping = NoReply
    /\ result_transcript = <<>>
    /\ error = NoError
    /\ calls = 0
    /\ SafeguardIdle
    /\ service = {}
    /\ peer = NoPeer
    /\ caller \in Callers
    /\ response = NoResponse
    /\ call = NoCall

\* The value classify_speakers returns: a dict with the transcript and the log.
classify_result ==
    [type |-> "dict", transcript |-> result_transcript, log |-> log]

\* json.dumps of the value classify_speakers returned: a dict is written as
\* an object with its two keys.
json_dumps(value) ==
    IF value.type = "dict"
    THEN [transcript |-> value.transcript, log |-> value.log]
    ELSE value.text

\* A Lambda response; body is the object that json.dumps wrote.
LambdaResponse(statusCode, body) ==
    [kind |-> "lambda", statusCode |-> statusCode, body |-> body]

\* lambda_handler up to the call of classify_speakers.
LambdaEntry ==
    /\ pc = "glue"
    /\ caller.kind = "lambda"
    /\ IF caller.event = "invalid_json"
       THEN /\ response' = LambdaResponse(400, [error |-> "Invalid JSON"])
            /\ pc' = "returned"
       ELSE IF caller.event = "missing_field"
       THEN /\ response' = LambdaResponse(400,
                               [error |-> "Missing required field: transcript"])
            /\ pc' = "returned"
       ELSE IF Strip(transcript) = <<>>
       THEN /\ response' = LambdaResponse(400, [error |-> "Empty transcript"])
            /\ pc' = "returned"
       ELSE /\ pc' = "start"
            /\ UNCHANGED response
    /\ UNCHANGED <<transcript, target_roles, enable_safeguard, api_key, log, reply,
                   mapping, result_transcript, error, calls, svars, service, peer,
                   caller, call>>

\* The response lambda_handler builds from what classify_speakers returned
\* or raised.
lambda_response(returned, raised) ==
    IF raised.kind = "none"
    THEN LambdaResponse(200, [result |-> json_dumps(returned)])
    ELSE IF raised.kind = "InvalidJSONResponseError"
    THEN LambdaResponse(502, [error |-> "API Error"])
    ELSE IF raised.kind = "MissingSpeakerMappingError"
    THEN LambdaResponse(422, [error |-> "Missing Speaker Mapping"])
    ELSE IF raised.kind = "SpeakerNotFoundError"
    THEN LambdaResponse(422, [error |-> "Speaker Not Found"])
    ELSE LambdaResponse(500, [error |-> "Internal Server Error"])

\* lambda_handler after classify_speakers has returned or raised.
LambdaReturn ==
    /\ pc \in {"done", "failed"}
    /\ caller.kind = "lambda"
    /\ response' = lambda_response(classify_result, error)
    /\ pc' = "returned"
    /\ UNCHANGED <<transcript, target_roles, enable_safeguard, api_key, log, reply,
                   mapping, result_transcript, error, calls, svars, service, peer,
                   caller, call>>

\* How the CLI ends: the exit status, what was written to the output file.
CliOutcome(status, output) == [kind |-> "cli", status |-> status, output |-> output]

\* main up to the call of classify_speakers.
CliEntry ==
    /\ pc = "glue"
    /\ caller.kind = "cli"
    /\ IF Strip(transcript) = <<>>
       THEN /\ response' = CliOutcome(1, <<>>)
            /\ pc' = "returned"
       ELSE /\ pc' = "start"
            /\ UNCHANGED response
    /\ UNCHANGED <<transcript, target_roles, enable_safeguard, api_key, log, reply,
                   mapping, result_transcript, error, calls, svars, service, peer,
                   caller, call>>

\* output_file.write(value): a text file takes a str, anything else raises
\* TypeError and nothing is written.
file_write(value) ==
    IF value.type = "str"
    THEN [raised |-> "none", written |-> value.text]
    ELSE [raised |-> "TypeError", written |-> <<>>]

\* The exit status of main's except clauses.
exit_status(kind) ==
    CASE kind = "InvalidJSONResponseError" -> 2
      [] kind = "MissingSpeakerMappingError" -> 3
      [] kind = "SpeakerNotFoundError" -> 4
      [] kind = "ValueError" -> 5
      [] OTHER -> 99

\* The outcome of main from what classify_speakers returned or raised.
cli_outcome(returned, raised) ==
    IF raised.kind = "none"
    THEN LET w == file_write(returned)
         IN  IF w.raised = "none"
             THEN CliOutcome(0, w.written)
             ELSE CliOutcome(exit_status(w.raised), w.written)
    ELSE CliOutcome(exit_status(raised.kind), <<>>)

\* main after classify_speakers has returned or raised.
CliExit ==
    /\ pc \in {"done", "failed"}
    /\ caller.kind = "cli"
    /\ response' = cli_outcome(classify_result, error)
    /\ pc' = "returned"
    /\ UNCHANGED <<transcript, target_roles, enable_safeguard, api_key, log, reply,
                   mapping, result_transcript, error, calls, svars, service, peer,
                   caller, call>>

GlueNext ==
    \/ LambdaEntry
    \/ LambdaReturn
    \/ CliEntry
    \/ CliExit
    \/ Next

GlueSpec == GlueInit /\ [][GlueNext]_vars

(***************************************************************************)
(* The two search functions on their own: _find_utterance_by_prefix and    *)
(* _extract_speaker_labels (with _identify_non_target_labels) applied to   *)
(* arguments drawn from bounded sets.                                      *)
(***************************************************************************)
\* The longest transcript given to a function, in lines.
MaxFnLines == 2

\* max_words one-letter words, and the same with one more word after them.
TenWords == Join(<<SP>>, [i \in 1..max_words |-> <<"h">>])
ElevenWords(last) == TenWords \o <<SP>> \o last

\* The lines searched: plain, upper-case text, a lower-case role, two words,
\* no word, blank, the other role, indented, eleven words.
FindLineSet ==
    { Utterance(Agent, Hi),
      Utterance(Agent, <<"H", "I">>),
      Utterance(<<"a", "g", "e", "n", "t">>, Hi),
      Utterance(Agent, Hi \o <<SP>> \o OtherText),
      Agent \o <<COLON>>,
      <<>>,
      Utterance(Customer, Hi),
      <<SP>> \o Utterance(Agent, Hi),
      Utterance(Agent, ElevenWords(<<"i">>)) }

\* The prefixes: one word, upper case, two words, padded, empty, a part of
\* a word, eleven words that differ from a line in the eleventh only, ten
\* words that differ from it in the tenth.
FindPrefixSet ==
    { Hi,
      <<"H", "I">>,
      Hi \o <<SP>> \o OtherText,
      <<SP>> \o Hi \o <<SP>>,
      <<>>,
      <<"h">>,
      ElevenWords(OtherText),
      Join(<<SP>>, [i \in 1..max_words |->
                      IF i = max_words THEN OtherText ELSE <<"h">>]) }

\* The lines labels are extracted from: labelled, without a colon, beginning
\* with a colon, a space before the colon, indented and lower-case, two
\* colons, blank, a target role.
ExtractLineSet ==
    { Utterance(S1, Hi),
      Hi,
      <<COLON>> \o Hi,
      S1 \o <<SP, COLON, SP>> \o Hi,
      <<SP, "s", "1">> \o <<COLON, SP>> \o Hi,
      S1 \o <<COLON>> \o Hi \o <<COLON>> \o OtherText,
      <<>>,
      Utterance(Agent, Hi) }

\* The lines substitution is applied to: two labels of which one is the end
\* of the other, a target role, a label quoted inside an utterance, blank.
AS1 == <<"A">> \o S1

ReplaceLineSet ==
    { Utterance(S1, Hi),
      Utterance(AS1, Hi),
      Utterance(Customer, Hi),
      Utterance(Agent, Utterance(S1, Hi)),
      <<>> }

\* The mappings applied: any of the three labels to either role.
ReplaceMappings == UNION { [K -> Range(DefaultRoles)] : K \in SUBSET {S1, AS1, Customer} }

FnTranscripts(lines) == { Join(<<NL>>, ls) : ls \in SeqsUpTo(lines, MaxFnLines) }

\* The calls made.
FindCalls ==
    { [fn |-> "find_utterance_by_prefix", transcript |-> t, current_role |-> r,
       utterance_prefix |-> p] :
        t \in FnTranscripts(FindLineSet), r \in {Agent, Customer}, p \in FindPrefixSet }

ExtractCalls ==
    { [fn |-> "extract_speaker_labels", transcript |-> t, target_roles |-> r] :
        t \in FnTranscripts(ExtractLineSet), r \in {DefaultRoles, <<S1, Customer>>} }

\* keys, result and replacements_made are the locals of _replace_speakers.
ReplaceCalls ==
    { [fn |-> "replace_speakers", transcript |-> t, mapping |-> m,
       keys |-> <<>>, result |-> <<>>, replacements_made |-> <<>>] :
        t \in FnTranscripts(ReplaceLineSet), m \in ReplaceMappings }

FnInit ==
    /\ transcript = <<>>
    /\ target_roles = None
    /\ enable_safeguard = FALSE
    /\ api_key = FALSE
    /\ pc = "fn_call"
    /\ log = <<>>
    /\ reply = NoReply
    /\ mapping = NoReply
    /\ result_transcript = <<>>
    /\ error = NoError
    /\ calls = 0
    /\ SafeguardIdle
    /\ service = {}
    /\ peer = NoPeer
    /\ caller = NoCaller
    /\ response = NoResponse
    /\ call \in FindCalls \cup ExtractCalls \cup ReplaceCalls

\* _find_utterance_by_prefix(transcript, current_role, utterance_prefix)
FindUtterance ==
    /\ pc = "fn_call"
    /\ call.fn = "find_utterance_by_prefix"
    /\ response' = find_utterance_by_prefix(call.transcript, call.current_role,
                                            call.utterance_prefix)
    /\ pc' = "fn_done"
    /\ UNCHANGED <<transcript, target_roles, enable_safeguard, api_key, log, reply,
                   mapping, result_transcript, error, calls, svars, service, peer,
                   caller, call>>

\* _extract_speaker_labels(transcript), then
\* _identify_non_target_labels(transcript, target_roles)
ExtractLabels ==
    /\ pc = "fn_call"
    /\ call.fn = "extract_speaker_labels"
    /\ response' = [all_labels |-> extract_speaker_labels(call.transcript),
                    non_target_labels |->
                        identify_non_target_labels(call.transcript, call.target_roles)]
    /\ pc' = "fn_done"
    /\ UNCHANGED <<transcript, target_roles, enable_safeguard, api_key, log, reply,
                   mapping, result_transcript, error, calls, svars, service, peer,
                   caller, call>>

\* _replace_speakers(transcript, mapping, log) up to its loop
ReplaceStart ==
    /\ pc = "fn_call"
    /\ call.fn = "replace_speakers"
    /\ call' = [call EXCEPT !.keys = sorted_reverse(DOMAIN call.mapping),
                            !.result = call.transcript,
                            !.replacements_made = <<>>]
    /\ pc' = "fn_loop"
    /\ UNCHANGED <<transcript, target_roles, enable_safeguard, api_key, log, reply,
                   mapping, result_transcript, error, calls, svars, service, peer,
                   caller, response>>

\* One turn of the loop over the keys.
ReplaceKey ==
    /\ pc = "fn_loop"
    /\ call.fn = "replace_speakers"
    /\ call.keys # <<>>
    /\ LET out == ReplaceLoop(<<Head(call.keys)>>, call.mapping, call.result,
                              call.replacements_made)
       IN  call' = [call EXCEPT !.keys = Tail(call.keys),
                                !.result = out.result,
                                !.replacements_made = out.replacements]
    /\ UNCHANGED <<transcript, target_roles, enable_safeguard, api_key, pc, log, reply,
                   mapping, result_transcript, error, calls, svars, service, peer,
                   caller, response>>

\* The label_replacement entry and the return.
ReplaceEnd ==
    /\ pc = "fn_loop"
    /\ call.fn = "replace_speakers"
    /\ call.keys = <<>>
    /\ log' = Append(log, [step |-> "label_replacement",
                           replacements |-> call.replacements_made])
    /\ response' = call.result
    /\ pc' = "fn_done"
    /\ UNCHANGED <<transcript, target_roles, enable_safeguard, api_key, reply,
                   mapping, result_transcript, error, calls, svars, service, peer,
                   caller, call>>

FnNext ==
    \/ FindUtterance
    \/ ExtractLabels
    \/ ReplaceStart
    \/ ReplaceKey
    \/ ReplaceEnd

FnSpec == FnInit /\ [][FnNext]_vars

(***************************************************************************)
(* Notions of the specification, used to state the properties.  They are   *)
(* written from the data model (section 3), not from the code's helpers.   *)
(***************************************************************************)
\* The target roles in force: the default when none are given.
Roles == IF target_roles = None THEN DefaultRoles ELSE target_roles

\* The label of a line: everything before its first colon, trimmed; <<>> for
\* a blank line, a line without a colon and a line that begins with a colon.
LabelOf(line) ==
    LET t == Strip(line)
        i == Index(t, COLON)
    IN  IF i <= 1 THEN <<>> ELSE Strip(SubSeq(t, 1, i - 1))

\* The label set of a transcript.
LabelSet(text) == { LabelOf(l) : l \in Range(Split(text)) } \ { <<>> }

\* The non-target labels of a transcript.
NonTargetLabels(text) == LabelSet(text) \ Range(Roles)

\* q lists the set S in ascending order, each element once.
ListsAscending(q, S) ==
    /\ Len(q) = Cardinality(S)
    /\ Range(q) = S
    /\ \A i \in 1..(Len(q) - 1) : StrLess(q[i], q[i + 1])

\* text names exactly the elements of S, sorted and joined by ", ".
NamesSorted(text, S) ==
    \E q \in [1..Cardinality(S) -> S] :
        ListsAscending(q, S) /\ text = Join(<<",", SP>>, q)

\* The steps of the log entries, in order.
Steps == [i \in 1..Len(log) |-> log[i].step]

Logged(step) == \E i \in 1..Len(log) : log[i].step = step

NumLogged(step) == Cardinality({ i \in 1..Len(log) : log[i].step = step })

\* The invocation has returned / has raised.
Returned == pc = "done"
Failed == pc = "failed"

(***************************************************************************)
(* C1..C6                                                                  *)
(***************************************************************************)
\* C1: with the safeguard disabled, an invocation on a transcript whose label
\* set has no non-target label never fails, and returns a transcript equal,
\* character for character, to the input transcript.
C1_NoNonTargetLabelReturnsInput ==
    (~enable_safeguard /\ NonTargetLabels(transcript) = {})
        => /\ ~Failed
           /\ Returned => result_transcript = transcript

\* C1 witness: such an invocation has returned, on a transcript whose label
\* set is exactly the target-role set.
C1_Witness ==
    /\ Returned
    /\ ~enable_safeguard
    /\ LabelSet(transcript) = Range(Roles)
    /\ result_transcript = transcript

\* The labels the mapping misses / the keys that are no label of the transcript.
MissingLabels == NonTargetLabels(transcript) \ DOMAIN reply.mapping
ExtraneousKeys == DOMAIN reply.mapping \ LabelSet(transcript)

\* C2: when the mapping the Role Mapper returned omits a non-target label,
\* the invocation fails with MissingSpeakerMappingError, the message names
\* exactly the missing labels, sorted and comma-joined, and no substitution
\* is performed (no label_replacement entry, the transcript untouched).
C2_MissingSpeakerMapping ==
    (reply.kind = "object" /\ MissingLabels # {})
        => /\ pc \in {"validate", "failed"}
           /\ Failed => /\ error.kind = "MissingSpeakerMappingError"
                        /\ NamesSorted(error.names, MissingLabels)
           /\ ~Logged("label_replacement")
           /\ result_transcript = transcript

\* C2 witness: the failure has happened with two labels missing while the
\* mapping also has an extraneous key.
C2_Witness ==
    /\ Failed
    /\ reply.kind = "object"
    /\ Cardinality(MissingLabels) = 2
    /\ ExtraneousKeys # {}
    /\ error.kind = "MissingSpeakerMappingError"

\* C3: when the returned mapping covers every non-target label but has a key
\* that is no label of the transcript, the invocation fails with
\* SpeakerNotFoundError, the message names exactly the extraneous keys,
\* sorted and comma-joined, and no substitution is performed.
C3_SpeakerNotFound ==
    (reply.kind = "object" /\ MissingLabels = {} /\ ExtraneousKeys # {})
        => /\ pc \in {"validate", "failed"}
           /\ Failed => /\ error.kind = "SpeakerNotFoundError"
                        /\ NamesSorted(error.names, ExtraneousKeys)
           /\ ~Logged("label_replacement")
           /\ result_transcript = transcript

\* C3 witness: the failure has happened for a complete mapping with an
\* extraneous key.
C3_Witness ==
    /\ Failed
    /\ reply.kind = "object"
    /\ MissingLabels = {}
    /\ NonTargetLabels(transcript) # {}
    /\ ExtraneousKeys # {}
    /\ error.kind = "SpeakerNotFoundError"

\* C4: when the service's reply is empty or unparseable, or the call fails,
\* exactly one error entry is logged, the invocation fails with
\* InvalidJSONResponseError and is over: no step is enabled, and neither a
\* mapping_decision nor a label_replacement entry is logged.
C4_InvalidJSONResponseIsTerminal ==
    (reply.kind \in {"empty", "malformed", "call_failed"})
        => /\ Failed
           /\ error.kind = "InvalidJSONResponseError"
           /\ NumLogged("error") = 1
           /\ Steps[Len(log)] = "error"
           /\ ~Logged("mapping_decision")
           /\ ~Logged("label_replacement")
           /\ result_transcript = transcript
           /\ ~ENABLED Next

\* C4 witness: the call itself failed and the invocation has failed.
C4_Witness ==
    /\ Failed
    /\ reply.kind = "call_failed"
    /\ NumLogged("error") = 1

\* The error kinds of the specification's taxonomy.
NamedErrorKinds ==
    {"InvalidJSONResponseError", "MissingSpeakerMappingError",
     "SpeakerNotFoundError", "ValueError"}

\* C5: every failing invocation fails with one of the four named error
\* kinds, whatever the service replied.
C5_OnlyNamedErrorKinds == Failed => error.kind \in NamedErrorKinds

\* C6: with the safeguard enabled, the returned log has a configuration
\* entry, later a safeguard_start entry and later a safeguard_end entry.
C6_SafeguardRuns ==
    (Returned /\ enable_safeguard)
        => \E i, j, k \in 1..Len(log) :
              /\ i < j /\ j < k
              /\ Steps[i] = "configuration"
              /\ Steps[j] = "safeguard_start"
              /\ Steps[k] = "safeguard_end"


(***************************************************************************)
(* C7..C10: substitution.                                                  *)
(***************************************************************************)
\* The Substitution Engine has run in this invocation.
Substituted == pc \in {"safeguard", "done"} /\ Logged("label_replacement")

\* Every value of the returned mapping is a target role.
ValuesAreRoles ==
    mapping.kind = "object"
        => \A k \in DOMAIN mapping.mapping : mapping.mapping[k] \in Range(Roles)

\* The returned mapping is a Mapping of the data model: its keys are exactly
\* the non-target labels and its values are target roles.
MappingOfDataModel ==
    /\ mapping.kind = "object"
    /\ DOMAIN mapping.mapping = NonTargetLabels(transcript)
    /\ ValuesAreRoles

\* A line with its leading label replaced by the label's role: the text
\* before the first colon keeps its surrounding whitespace, everything from
\* the first colon on is kept; a line that is no utterance, or whose label is
\* not mapped, is kept.
LeadingLabelReplaced(line, m) ==
    LET label == LabelOf(line)
        i == Index(line, COLON)
        before == SubSeq(line, 1, i - 1)
        lead == SubSeq(before, 1, Len(before) - Len(LStrip(before)))
        trail == Drop(before, Len(RStrip(before)) + 1)
    IN  IF label = <<>> \/ label \notin DOMAIN m THEN line
        ELSE lead \o m[label] \o trail \o Drop(line, i)

\* The reference result of substitution: on each utterance line, only the
\* leading label is replaced by its role.
ReferenceSubstitution(text, m) ==
    LET lines == Split(text)
    IN  Join(<<NL>>, [i \in 1..Len(lines) |-> LeadingLabelReplaced(lines[i], m)])

NumUtterances(text) ==
    LET lines == Split(text)
    IN  Cardinality({ i \in 1..Len(lines) : LabelOf(lines[i]) # <<>> })

\* C7: for a valid, complete mapping the output of substitution is the
\* reference result (only the leading label of each utterance line replaced
\* by its role, all other text kept), with as many utterances as the input.
C7_SubstitutionIsLeadingLabelReplacement ==
    (Substituted /\ MappingOfDataModel)
        => /\ result_transcript = ReferenceSubstitution(transcript, mapping.mapping)
           /\ NumUtterances(result_transcript) = NumUtterances(transcript)

\* C8: after a successful call whose mapping has only target roles as values,
\* no non-target label of the input is in the label set of the output.
C8_NoNonTargetLabelRemains ==
    (Returned /\ Logged("label_replacement") /\ ValuesAreRoles)
        => LabelSet(result_transcript) \cap NonTargetLabels(transcript) = {}

ProperSuffix(a, b) ==
    Len(a) < Len(b) /\ SubSeq(b, Len(b) - Len(a) + 1, Len(b)) = a

\* Every utterance of the text has its label written immediately before the
\* colon (no whitespace between the label and the colon).
LabelsAdjoinColon(text) ==
    \A l \in Range(Split(text)) :
        LabelOf(l) # <<>>
            => LET t == Strip(l) IN SubSeq(t, 1, Index(t, COLON) - 1) = LabelOf(l)

\* No key of the returned mapping is a proper suffix of a label of the
\* transcript or of a target role.
NoKeyIsProperSuffix ==
    mapping.kind = "object"
        => \A k \in DOMAIN mapping.mapping :
               \A x \in LabelSet(transcript) \cup Range(Roles) : ~ProperSuffix(k, x)

ProperPrefix(a, b) == Len(a) < Len(b) /\ SubSeq(b, 1, Len(a)) = a

\* Wherever a line of the input begins with "<label>:", the same line of the
\* output begins with "<role>:".
LeadingOccurrencesBecome(label, role) ==
    LET before == Split(transcript)
        after == Split(result_transcript)
    IN  /\ Len(after) = Len(before)
        /\ \A i \in 1..Len(before) :
               StartsWithAt(before[i], label \o <<COLON>>, 1)
                   => StartsWithAt(after[i], role \o <<COLON>>, 1)

\* C10: substitution processes the keys in descending order, and of two
\* mapped labels of which one is a prefix of the other, the occurrences of
\* each label's prefix end up as that label's own role (stated here for the
\* occurrences that begin a line).
C10_PrefixLabelsKeepOwnRole ==
    (Substituted /\ ValuesAreRoles)
        => /\ \A n \in 1..Len(log) :
                 log[n].step = "label_replacement"
                     => \A i, j \in 1..Len(log[n].replacements) :
                            i < j => StrLess(log[n].replacements[j].from,
                                             log[n].replacements[i].from)
           /\ \A p, q \in DOMAIN mapping.mapping :
                 ProperPrefix(p, q)
                     => /\ LeadingOccurrencesBecome(q, mapping.mapping[q])
                        /\ LeadingOccurrencesBecome(p, mapping.mapping[p])


(***************************************************************************)
(* Properties of the Safeguard Corrector, under SafeguardSpec.             *)
(***************************************************************************)
\* C11: in every run of run_safeguard_validation, whatever the service
\* replies, at most 3 safeguard_iteration entries are logged and at most 3
\* service calls are made.
C11_AtMostThreeIterations ==
    /\ NumLogged("safeguard_iteration") <= 3
    /\ calls <= 3

\* C11 witness: a run has returned after three iterations in each of which
\* the service requested corrections.
C11_Witness ==
    /\ Returned
    /\ calls = 3
    /\ NumLogged("safeguard_iteration") = 3
    /\ NumLogged("tool_calls_requested") = 3

\* The lines of the current transcript.
CurrentLines == Split(current_transcript)

\* The location rule of section 4.5: the trimmed line begins with the
\* literal "<role>:" and the first k words after it, lower-cased, are the
\* lower-cased words of the prefix, k = min(10, number of words of the prefix).
LocatedBy(line, role, prefix) ==
    LET t == Strip(line)
        p == role \o <<COLON>>
        pw == split_words(lower(prefix))
        tw == split_words(lower(Drop(t, Len(p) + 1)))
        k == IF Len(pw) < 10 THEN Len(pw) ELSE 10
    IN  /\ t # <<>>
        /\ Len(t) >= Len(p)
        /\ SubSeq(t, 1, Len(p)) = p
        /\ Len(tw) >= k
        /\ SubSeq(tw, 1, k) = SubSeq(pw, 1, k)

\* The next tool call to process is a correct_speaker_role call with parsed
\* arguments.
CorrectionCallPending ==
    /\ pc = "sg_tools"
    /\ tool_calls # <<>>
    /\ Head(tool_calls).function = "correct_speaker_role"
    /\ Head(tool_calls).arguments.kind = "object"

PendingArgs == Head(tool_calls).arguments

\* The lines of the current transcript the pending tool call matches.
PendingTargets ==
    { i \in 1..Len(CurrentLines) :
        LocatedBy(CurrentLines[i], PendingArgs.current_role,
                  PendingArgs.utterance_prefix) }

\* C12: a correct_speaker_role tool call whose prefix matches no line
\* carrying current_role logs an utterance_not_found entry with the role and
\* the prefix, leaves the transcript unchanged, logs no utterance_corrected
\* entry and records no Correction.
C12_UnlocatedCallIsDropped ==
    [][ (CorrectionCallPending /\ PendingTargets = {}) =>
          /\ current_transcript' = current_transcript
          /\ corrections_made' = corrections_made
          /\ Len(log') = Len(log) + 2
          /\ SubSeq(log', 1, Len(log)) = log
          /\ log'[Len(log) + 1].step = "tool_call"
          /\ log'[Len(log) + 2] = [step |-> "utterance_not_found",
                                   current_role |-> PendingArgs.current_role,
                                   prefix |-> PendingArgs.utterance_prefix]
      ]_vars

\* C12 witness: a tool call was not found although a line of the transcript
\* carries its role (the prefix does not match), after an earlier correction.
C12_Witness ==
    /\ log # <<>>
    /\ log[Len(log)].step = "utterance_not_found"
    /\ \E i \in 1..Len(CurrentLines) :
         StartsWithAt(Strip(CurrentLines[i]),
                      log[Len(log)].current_role \o <<COLON>>, 1)
    /\ corrections_made # <<>>

\* The first line the pending tool call matches.
PendingTarget == CHOOSE i \in PendingTargets : \A j \in PendingTargets : i <= j

\* line with its leading "<old>:" replaced by "<new>:", the indentation and
\* the rest of the line kept.
LeadingRoleRewritten(line, old, new) ==
    LET indent == Len(line) - Len(LStrip(line))
    IN  SubSeq(line, 1, indent) \o new \o <<COLON>>
          \o Drop(line, indent + Len(old) + 2)

\* C13: a tool call that locates its target line changes exactly that line:
\* the number of lines is unchanged, every other line is identical, and on
\* the target line only the leading "<current_role>:" becomes
\* "<correct_role>:".
C13_OnlyTargetLineRewritten ==
    [][ (CorrectionCallPending /\ PendingTargets # {}) =>
          LET after == Split(current_transcript')
          IN  /\ Len(after) = Len(CurrentLines)
              /\ \A i \in 1..Len(CurrentLines) :
                   after[i] = IF i = PendingTarget
                              THEN LeadingRoleRewritten(CurrentLines[i],
                                                        PendingArgs.current_role,
                                                        PendingArgs.correct_role)
                              ELSE CurrentLines[i]
      ]_vars

\* C13 witness: the indented line that quotes its own label was corrected,
\* in a transcript whose other line is blank or has no colon.
C13_Witness ==
    /\ log # <<>>
    /\ log[Len(log)].step = "utterance_corrected"
    /\ log[Len(log)].old_line = Quoting
    /\ log[Len(log)].new_line # Quoting
    /\ Len(CurrentLines) = 2
    /\ \E i \in 1..2 : CurrentLines[i] \in { <<>>, Hi }

\* The input transcript with the corrections of the first n log entries
\* applied: each utterance_corrected entry rewrites the leading role of the
\* line it names.
RECURSIVE ReplayCorrections(_, _, _)
ReplayCorrections(lines, k, n) ==
    IF k > n THEN lines
    ELSE ReplayCorrections(
             IF log[k].step = "utterance_corrected"
             THEN [lines EXCEPT ![log[k].line_index + 1] =
                       LeadingRoleRewritten(@, log[k].old_role, log[k].new_role)]
             ELSE lines,
             k + 1, n)

CorrectedUpTo(n) == Join(<<NL>>, ReplayCorrections(Split(transcript), 1, n))

\* C14: when a service call or the processing of its reply fails, the
\* safeguard logs safeguard_error, stops iterating, keeps every correction
\* applied before the failure and returns that transcript; no exception
\* leaves the safeguard.
C14_ServiceFailureIsAbsorbed ==
    /\ Failed => calls = 0
    /\ \A k \in 1..Len(log) :
         log[k].step = "safeguard_error" =>
           /\ error = NoError
           /\ pc \in {"sg_end", "done"}
           /\ \A j \in (k + 1)..Len(log) : log[j].step = "safeguard_end"
           /\ current_transcript = CorrectedUpTo(k)
           /\ Returned => result_transcript = CorrectedUpTo(k)

\* C14 witness: a run has returned a corrected transcript after the second
\* tool call of a reply failed to parse, the first having been applied.
C14_Witness ==
    /\ Returned
    /\ result_transcript # transcript
    /\ \E k \in 2..Len(log) :
         /\ log[k].step = "safeguard_error"
         /\ log[k - 1].step = "utterance_corrected"

\* C15: without a credential no service call is ever made and neither
\* mapping_request nor safeguard_start is logged; an invocation that reaches
\* the Role Mapper or the Safeguard Corrector raises the configuration error
\* instead, and only an invocation with no non-target label returns.
C15_NoServiceCallWithoutCredential ==
    ~api_key =>
      /\ calls = 0
      /\ requests = <<>>
      /\ ~Logged("mapping_request")
      /\ ~Logged("safeguard_start")
      /\ pc \in {"start", "analysis", "mapper", "safeguard", "sg_start", "done", "failed"}
      /\ Failed => error.kind = "ValueError"
      /\ Returned => Logged("label_analysis") /\ NonTargetLabels(transcript) = {}

\* C15 witness: a run of the safeguard has raised the configuration error
\* with nothing logged.
C15_Witness ==
    /\ Failed
    /\ ~api_key
    /\ error.kind = "ValueError"
    /\ log = <<>>

\* C16: a run of the safeguard loop ends with a safeguard_end entry, the last
\* entry of the log and the only one of its kind; its total_corrections is
\* the length of its corrections list and the number of utterance_corrected
\* entries of the run.
C16_SafeguardEndClosesRun ==
    /\ Returned =>
         LET last == log[Len(log)]
         IN  /\ last.step = "safeguard_end"
             /\ NumLogged("safeguard_end") = 1
             /\ last.total_corrections = Len(last.corrections_made)
             /\ last.total_corrections = NumLogged("utterance_corrected")
    /\ ~Returned => ~Logged("safeguard_end")

\* C16 witness: a run has returned with two corrections out of three tool
\* calls.
C16_Witness ==
    /\ Returned
    /\ log[Len(log)].total_corrections = 2
    /\ NumLogged("tool_call") = 3

\* C17: a reply without tool calls logs safeguard_complete with the number
\* of corrections made so far, right after the iteration's entry; nothing but
\* safeguard_end follows, no further service call is made, and the transcript
\* returned is the one before that iteration (the input, on the first).
C17_NoToolCallsCompletes ==
    \A k \in 1..Len(log) :
      log[k].step = "safeguard_complete" =>
        /\ k > 1
        /\ log[k - 1].step = "safeguard_iteration"
        /\ calls = log[k - 1].iteration
        /\ log[k].total_corrections =
             Cardinality({ j \in 1..k : log[j].step = "utterance_corrected" })
        /\ \A j \in (k + 1)..Len(log) : log[j].step = "safeguard_end"
        /\ pc \in {"sg_end", "done"}
        /\ current_transcript = CorrectedUpTo(k - 1)
        /\ calls = 1 => current_transcript = transcript
        /\ Returned => result_transcript = current_transcript

\* C17 witness: a run has returned after a second reply without tool calls,
\* the first reply having corrected a line.
C17_Witness ==
    /\ Returned
    /\ Logged("safeguard_complete")
    /\ calls = 2
    /\ result_transcript # transcript

\* The number of the iteration under way.
IterationNumber == NumLogged("safeguard_iteration")

\* C18: after the last tool call of iteration n the safeguard starts
\* iteration n+1 if and only if n < 3 and a correction has been made so far
\* in the run; otherwise the loop ends.
C18_ContinuesIffCorrectedSoFar ==
    [][ /\ (pc = "sg_tools" /\ tool_calls = <<>>) =>
             IF IterationNumber < 3 /\ NumLogged("utterance_corrected") >= 1
             THEN pc' = "sg_loop"
             ELSE pc' = "sg_end"
        /\ pc = "sg_loop" =>
             /\ Len(log') = Len(log) + 1
             /\ log'[Len(log')] = [step |-> "safeguard_iteration",
                                   iteration |-> IterationNumber + 1]
             /\ pc' = "sg_call"
        /\ pc = "sg_end" => IterationNumber' = IterationNumber
      ]_vars

\* C18 witness: a third iteration has begun although the second made no
\* correction, the only correction of the run being the first iteration's.
C18_Witness ==
    /\ NumLogged("utterance_corrected") = 1
    /\ \E k \in 2..Len(log) :
         /\ log[k] = [step |-> "safeguard_iteration", iteration |-> 3]
         /\ log[k - 1].step = "utterance_not_found"

\* The index in the log of the n-th safeguard_iteration entry.
IterationEntry(n) ==
    CHOOSE k \in 1..Len(log) : log[k] = [step |-> "safeguard_iteration", iteration |-> n]

\* C19: the review request of iteration 1 embeds the transcript passed in,
\* and the request of iteration n+1 embeds the transcript with all the
\* corrections of iterations 1..n applied.
C19_RequestEmbedsCurrentTranscript ==
    \A n \in 1..Len(requests) :
      /\ n <= NumLogged("safeguard_iteration")
      /\ requests[n].transcript = CorrectedUpTo(IterationEntry(n))
      /\ n = 1 => requests[n].transcript = transcript

\* C19 witness: three requests were sent, each with a transcript that differs
\* from the one before.
C19_Witness ==
    /\ Len(requests) = 3
    /\ requests[2].transcript # requests[1].transcript
    /\ requests[3].transcript # requests[2].transcript


(***************************************************************************)
(* Order of the classify_speakers log, under Spec.                         *)
(***************************************************************************)
\* The steps a log of a successful call has before any safeguard entry.
PipelineSteps ==
    IF NonTargetLabels(transcript) = {}
    THEN << "configuration", "label_analysis" >>
    ELSE << "configuration", "label_analysis", "mapping_request",
            "mapping_decision", "label_replacement" >>

\* C20: the log of a successful call has configuration first, label_analysis
\* second and, when non-target labels exist, mapping_request, mapping_decision
\* and label_replacement next, each once and before any safeguard entry;
\* mapping_request is logged before the service call is issued.
C20_LogInPipelineOrder ==
    /\ Returned =>
         /\ Len(Steps) >= Len(PipelineSteps)
         /\ SubSeq(Steps, 1, Len(PipelineSteps)) = PipelineSteps
         /\ \A i \in (Len(PipelineSteps) + 1)..Len(Steps) : Steps[i] = "safeguard"
    /\ calls > 0 => Logged("mapping_request")
    /\ Logged("mapping_decision") => calls > 0

\* C20 witness: a call with the safeguard enabled has returned after mapping
\* and substitution.
C20_Witness ==
    /\ Returned
    /\ enable_safeguard
    /\ Logged("label_replacement")
    /\ Len(log) = 6

\* C21: on a transcript without non-target labels classify_speakers never
\* enters the Role Mapper, the Mapping Validator or the Substitution Engine:
\* no service call is made and the log has no mapping_request,
\* mapping_decision, label_replacement or error entry.
C21_MappingSkippedWithoutNonTargetLabels ==
    NonTargetLabels(transcript) = {} =>
      /\ calls = 0
      /\ reply = NoReply
      /\ mapping = NoReply
      /\ ~Logged("mapping_request")
      /\ ~Logged("mapping_decision")
      /\ ~Logged("label_replacement")
      /\ ~Logged("error")
      /\ pc \notin {"mapper", "calling", "validate", "replace", "failed"}

\* C21 witness: a call with the safeguard enabled has returned on a
\* transcript that carries both target roles and no other label.
C21_Witness ==
    /\ Returned
    /\ enable_safeguard
    /\ LabelSet(transcript) = {Agent, Customer}
    /\ Len(log) = 3


(***************************************************************************)
(* The log, over both entry points (EntrySpec).                            *)
(***************************************************************************)
\* C22: the log is empty when an invocation starts and every step of the
\* orchestrator, the mapper, the substitution and the safeguard leaves the
\* log it found as a prefix of the log it leaves: entries are only appended.
C22_LogIsAppendOnly ==
    /\ [](pc \in {"start", "sg_start"} => log = <<>>)
    /\ [][ /\ Len(log') >= Len(log)
           /\ SubSeq(log', 1, Len(log)) = log ]_vars

\* C22 witness: a run of the safeguard has returned a log of nine entries or
\* more.
C22_Witness ==
    /\ Returned
    /\ Logged("safeguard_end")
    /\ Len(log) >= 9


(***************************************************************************)
(* Interleaved invocations (PairSpec).                                     *)
(***************************************************************************)
\* What classify_speakers(t, enable_safeguard = sg) gives when it runs alone
\* and the service, if asked, replies r: how it ends, its log, the transcript
\* returned, the kind of the error raised.
RunAlone(t, sg, r) ==
    LET roles == DefaultRoles
        labels_to_map == identify_non_target_labels(t, roles)
        head == << [step |-> "configuration", target_roles |-> roles,
                    enable_safeguard |-> sg],
                   [step |-> "label_analysis",
                    all_labels |-> extract_speaker_labels(t),
                    target_roles |-> roles,
                    non_target_labels |-> labels_to_map] >>
        tail == IF sg
                THEN << [step |-> "safeguard", status |-> "not_yet_implemented"] >>
                ELSE <<>>
        request == [step |-> "mapping_request", target_roles |-> roles,
                    labels_to_map |-> labels_to_map]
        out == call_gpt5_api(r)
        invalid == validate_mapping(t, out.returned, roles)
        sub == replace_speakers(t, out.returned.mapping)
    IN  IF labels_to_map = {}
        THEN [pc |-> "done", log |-> head \o tail, transcript |-> t, error |-> "none"]
        ELSE IF ~api_key
        THEN [pc |-> "failed", log |-> head, transcript |-> t, error |-> "ValueError"]
        ELSE IF out.error.kind # "none"
        THEN [pc |-> "failed", log |-> head \o <<request>> \o out.entries,
              transcript |-> t, error |-> out.error.kind]
        ELSE IF invalid.kind # "none"
        THEN [pc |-> "failed", log |-> head \o <<request>> \o out.entries,
              transcript |-> t, error |-> invalid.kind]
        ELSE [pc |-> "done",
              log |-> head \o <<request>> \o out.entries
                        \o << [step |-> "label_replacement",
                               replacements |-> sub.replacements] >> \o tail,
              transcript |-> sub.result,
              error |-> "none"]

\* An invocation that has ended did so as it would have alone.
EndedAsAlone(inv) ==
    inv.pc \in {"done", "failed"} =>
      LET alone == RunAlone(inv.transcript, inv.enable_safeguard, inv.reply)
      IN  /\ inv.pc = alone.pc
          /\ inv.log = alone.log
          /\ inv.error.kind = alone.error
          /\ inv.pc = "done" => inv.result_transcript = alone.transcript

\* C23: of two invocations whose steps are interleaved in any order, each
\* returns the log and the transcript it would return running alone with the
\* same service reply: no entry of the other invocation, no shared state.
C23_InvocationsAreIndependent ==
    /\ EndedAsAlone(Invocation)
    /\ peer # NoPeer => EndedAsAlone(peer)

\* C23 witness: one invocation has returned a substituted transcript while
\* the other, on another transcript, is suspended between the service's
\* reply and the validation.
C23_Witness ==
    /\ Returned
    /\ Logged("label_replacement")
    /\ peer # NoPeer
    /\ peer.pc = "validate"
    /\ peer.transcript # transcript


(***************************************************************************)
(* Mapping Validator and Substitution Engine, under Spec.                  *)
(***************************************************************************)
\* C24: for a mapping that both omits a non-target label and has a key that
\* is no label of the transcript the failure is MissingSpeakerMappingError;
\* and the validator's step changes neither the transcript, nor the mapping,
\* nor the log.
C24_MissingFirstAndNoSideEffect ==
    /\ []( (reply.kind = "object" /\ MissingLabels # {} /\ ExtraneousKeys # {}) =>
             /\ pc \in {"validate", "failed"}
             /\ Failed => error.kind = "MissingSpeakerMappingError" )
    /\ [][ pc = "validate" =>
             /\ transcript' = transcript
             /\ result_transcript' = result_transcript
             /\ mapping' = mapping
             /\ reply' = reply
             /\ log' = log ]_vars

\* C24 witness: validation has failed on a mapping that maps one label of
\* the transcript, omits another and has a key the transcript lacks.
C24_Witness ==
    /\ Failed
    /\ reply.kind = "object"
    /\ Cardinality(MissingLabels) = 1
    /\ ExtraneousKeys # {}
    /\ DOMAIN reply.mapping \cap NonTargetLabels(transcript) # {}
    /\ error.kind = "MissingSpeakerMappingError"

\* C25: the mapping the Substitution Engine applies has only non-target
\* labels of the transcript as keys, so every utterance that carries a target
\* role keeps its line through substitution.
C25_AppliedMappingIsRestricted ==
    Substituted =>
      /\ DOMAIN mapping.mapping \subseteq NonTargetLabels(transcript)
      /\ LET before == Split(transcript)
             after == Split(result_transcript)
         IN  /\ Len(after) = Len(before)
             /\ \A i \in 1..Len(before) :
                  LabelOf(before[i]) \in Range(Roles) =>
                    LabelOf(after[i]) = LabelOf(before[i])


(***************************************************************************)
(* The safeguard with a service that issues any tool call                  *)
(* (LooseServiceSpec).                                                     *)
(***************************************************************************)
\* Every non-blank line of text starts with "<role>:" for a target role.
ProperlyLabelled(text) ==
    \A l \in Range(Split(text)) :
      Strip(l) # <<>> =>
        \E role \in Range(DefaultRoles) : StartsWithAt(l, role \o <<COLON>>, 1)

\* C26: when every non-blank line of the transcript given to the safeguard
\* starts with a target role and a colon, so does every non-blank line of
\* the transcript it returns, whatever tool calls the service issues.
C26_RoleLabelsPreserved ==
    (Returned /\ ProperlyLabelled(transcript)) => ProperlyLabelled(result_transcript)


(***************************************************************************)
(* The Lambda handler and the CLI (GlueSpec).                              *)
(***************************************************************************)
\* The glue has answered a call in which classify_speakers returned.
AnsweredSuccess(kind) ==
    /\ pc = "returned"
    /\ caller.kind = kind
    /\ Logged("configuration")
    /\ error = NoError

\* C27: for a request with a non-empty transcript that classifies
\* successfully lambda_handler returns statusCode 200 and a JSON body that
\* has, at its top level, the log array and the classified transcript.
C27_LambdaBodyHasTopLevelLog ==
    AnsweredSuccess("lambda") =>
      /\ response.statusCode = 200
      /\ "log" \in DOMAIN response.body
      /\ response.body.log = log
      /\ \E field \in DOMAIN response.body : response.body[field] = result_transcript

\* C28: the CLI writes the classified transcript to the output file and
\* exits with 0 when classification succeeds; it exits with 1 on blank
\* input, 2, 3, 4 on the three domain errors, 5 on the configuration error
\* and 99 on any other error only.
C28_CliExitStatus ==
    (pc = "returned" /\ caller.kind = "cli") =>
      IF ~Logged("configuration")
      THEN Strip(transcript) = <<>> /\ response.status = 1
      ELSE CASE error.kind = "none" ->
                  response.status = 0 /\ response.output = result_transcript
             [] error.kind = "InvalidJSONResponseError" -> response.status = 2
             [] error.kind = "MissingSpeakerMappingError" -> response.status = 3
             [] error.kind = "SpeakerNotFoundError" -> response.status = 4
             [] error.kind = "ValueError" -> response.status = 5
             [] OTHER -> response.status = 99


(***************************************************************************)
(* The search functions on their own (FnSpec).                             *)
(***************************************************************************)
FnReturned(fn) == pc = "fn_done" /\ call.fn = fn

\* The lines of the transcript searched, and the positions (from 1) of
\* those the location rule selects for the call's role and prefix.
SearchedLines == Split(call.transcript)

Located ==
    { i \in 1..Len(SearchedLines) :
        LocatedBy(SearchedLines[i], call.current_role, call.utterance_prefix) }

\* C29: _find_utterance_by_prefix returns the first line, in document
\* order, that the location rule selects (trimmed line begins with the
\* case-sensitive "<current_role>:", first k words lower-cased equal those
\* of the prefix, k = min(10, words of the prefix)), with its index counted
\* over all lines, blank ones included; it returns not-found when the rule
\* selects no line.
C29_FindsFirstLocatedLine ==
    FnReturned("find_utterance_by_prefix") =>
      IF Located = {}
      THEN response = NotFound
      ELSE /\ response.found
           /\ response.line_index + 1 \in Located
           /\ \A i \in Located : response.line_index + 1 <= i
           /\ response.full_line = Strip(SearchedLines[response.line_index + 1])

\* A line of eleven words is found behind a blank line, which its index
\* counts, by a prefix that differs from it in the eleventh word only.
C29_Witness ==
    /\ FnReturned("find_utterance_by_prefix")
    /\ call.transcript = Join(<<NL>>, << <<>>, Utterance(Agent, ElevenWords(<<"i">>)) >>)
    /\ call.utterance_prefix = ElevenWords(OtherText)
    /\ response.found
    /\ response.line_index = 1

\* C30: _extract_speaker_labels returns exactly the trimmed texts before
\* the first colon of the lines that have a non-empty text before it, told
\* apart by case; lines without a colon or beginning with one give no
\* label; the non-target labels are that set minus the target roles.
C30_LabelsAreTextBeforeFirstColon ==
    FnReturned("extract_speaker_labels") =>
      /\ response.all_labels = LabelSet(call.transcript)
      /\ response.non_target_labels =
             LabelSet(call.transcript) \ Range(call.target_roles)
      /\ (\A l \in Range(Split(call.transcript)) :
             Index(Strip(l), COLON) <= 1) => response.all_labels = {}

\* "S1 : hi" and " s1: hi" give the two labels S1 and s1.
C30_Witness ==
    /\ FnReturned("extract_speaker_labels")
    /\ call.transcript = Join(<<NL>>, << S1 \o <<SP, COLON, SP>> \o Hi,
                                         <<SP, "s", "1">> \o <<COLON, SP>> \o Hi >>)
    /\ call.target_roles = <<S1, Customer>>
    /\ response.all_labels = { S1, <<"s", "1">> }
    /\ response.non_target_labels = { <<"s", "1">> }


(***************************************************************************)
(* The Substitution Engine on its own (FnSpec).                            *)
(***************************************************************************)
\* The loop of _replace_speakers is about to process a key.
KeyPending == pc = "fn_loop" /\ call.fn = "replace_speakers" /\ call.keys # <<>>

PendingKey == Head(call.keys)
PendingPattern == PendingKey \o <<COLON>>
PendingRolePattern == call.mapping[PendingKey] \o <<COLON>>

\* The positions of text at which pattern occurs.
Occurrences(text, pattern) ==
    { i \in 1..Len(text) :
        /\ i + Len(pattern) - 1 <= Len(text)
        /\ SubSeq(text, i, i + Len(pattern) - 1) = pattern }

\* C31: every call of the Substitution Engine appends exactly one
\* label_replacement entry, holding the replacements list; a key adds an
\* element {from, to, occurrences} to that list if and only if "<label>:"
\* occurs in the text when the key is processed, and occurrences is the
\* number of its occurrences then.
C31_ElementIffPatternOccurs ==
    /\ [](FnReturned("replace_speakers") =>
            /\ NumLogged("label_replacement") = 1
            /\ Len(log) = 1
            /\ log[1].replacements = call.replacements_made)
    /\ [][KeyPending =>
            LET n == Cardinality(Occurrences(call.result, PendingPattern))
            IN  call'.replacements_made =
                  IF n >= 1
                  THEN Append(call.replacements_made,
                              [from |-> PendingKey,
                               to |-> call.mapping[PendingKey],
                               occurrences |-> n])
                  ELSE call.replacements_made]_vars

\* S1 is the end of AS1: once S1 is processed "AS1:" occurs no more, and of
\* the two keys only S1 has an element, counting two occurrences.
C31_Witness ==
    /\ FnReturned("replace_speakers")
    /\ call.transcript = Join(<<NL>>, <<Utterance(AS1, Hi), Utterance(S1, Hi)>>)
    /\ DOMAIN call.mapping = {S1, AS1}
    /\ Len(log[1].replacements) = 1
    /\ log[1].replacements[1].from = S1
    /\ log[1].replacements[1].occurrences = 2

\* C32: when a key is processed every occurrence of "<label>:" in the whole
\* text is replaced by "<role>:", wherever on its line it stands: each
\* occurrence, moved by the growth of those before it, reads "<role>:"
\* afterwards and the rest of the text is kept.
C32_EveryOccurrenceReplaced ==
    [][KeyPending =>
         LET occ == Occurrences(call.result, PendingPattern)
             grow == Len(PendingRolePattern) - Len(PendingPattern)
             Moved(i) == i + grow * Cardinality({ j \in occ : j < i })
         IN  /\ Len(call'.result) = Len(call.result) + grow * Cardinality(occ)
             /\ \A i \in occ :
                  SubSeq(call'.result, Moved(i),
                         Moved(i) + Len(PendingRolePattern) - 1) = PendingRolePattern
             /\ \A i \in 1..Len(call.result) :
                  (\A j \in occ : i < j \/ i >= j + Len(PendingPattern)) =>
                     call'.result[Moved(i)] = call.result[i]]_vars

\* The label quoted inside the Agent's utterance is replaced with the
\* leading one.
C32_Witness ==
    /\ FnReturned("replace_speakers")
    /\ call.transcript =
         Join(<<NL>>, <<Utterance(S1, Hi), Utterance(Agent, Utterance(S1, Hi))>>)
    /\ DOMAIN call.mapping = {S1}
    /\ response =
         Join(<<NL>>, <<Utterance(Customer, Hi),
                        Utterance(Agent, Utterance(Customer, Hi))>>)


\* C35: for two mapped labels A and B with "<A>:" a part of "<B>:", A the
\* end of B included, substitution for A leaves B's occurrences to B: every
\* line of the transcript that begins with "<B>:" begins with B's role
\* prefix in the result.
C35_LongerLabelKeepsOwnRole ==
    FnReturned("replace_speakers") =>
      \A A \in DOMAIN call.mapping, B \in DOMAIN call.mapping :
        (A # B /\ Contains(B \o <<COLON>>, A \o <<COLON>>)) =>
          \A i \in 1..Len(Split(call.transcript)) :
            StartsWithAt(Split(call.transcript)[i], B \o <<COLON>>, 1) =>
              StartsWithAt(Split(response)[i], call.mapping[B] \o <<COLON>>, 1)

\* C36: each label occurrence of the original transcript is rewritten once:
\* no key rewrites more occurrences than its label has in the original
\* transcript, so text inserted for an earlier key is never rewritten again.
C36_InsertedTextNotRewritten ==
    FnReturned("replace_speakers") =>
      \A i \in 1..Len(call.replacements_made) :
        call.replacements_made[i].occurrences <=
          Cardinality(Occurrences(call.transcript,
                                  call.replacements_made[i].from \o <<COLON>>))


(***************************************************************************)
(* Retries and termination.                                                *)
(***************************************************************************)
\* C33: the Role Mapper calls the service at most once in an invocation of
\* classify_speakers: a reply that is empty, unparseable or a failed call
\* is not asked for again, and the invocation has then failed with
\* InvalidJSONResponseError after that one call.
C33_AtMostOneMappingCall ==
    /\ calls <= 1
    /\ NumLogged("mapping_request") <= 1
    /\ reply.kind \in {"empty", "malformed", "call_failed"} =>
         /\ calls = 1
         /\ pc = "failed"
         /\ error.kind = "InvalidJSONResponseError"

\* The one call was made, its reply was unparseable, the invocation failed.
C33_Witness ==
    /\ pc = "failed"
    /\ reply.kind = "malformed"
    /\ calls = 1
    /\ error.kind = "InvalidJSONResponseError"


(***************************************************************************)
(* The corrections the safeguard records.                                  *)
(***************************************************************************)
IsEdit(entry) == entry.step = "utterance_corrected"

\* The edits of the run, in the order made.
Edits == SelectSeq(log, IsEdit)

\* C34: every element of safeguard_end's corrections list carries the line
\* index of the edited line, the old role, the new role and the reason of
\* the tool call.
C34_CorrectionIdentifiedByLineIndex ==
    Returned =>
      LET recorded == log[Len(log)].corrections_made
      IN  \A k \in 1..Len(recorded) :
            /\ "line_index" \in DOMAIN recorded[k]
            /\ recorded[k].line_index = Edits[k].line_index
            /\ recorded[k].current_role = Edits[k].old_role
            /\ recorded[k].correct_role = Edits[k].new_role
            /\ recorded[k].reason = Reason


(***************************************************************************)
(* Tool calls of one reply.                                                *)
(***************************************************************************)
\* The lines of the transcript the service was shown in this iteration,
\* and those of them the pending tool call matches.
ShownLines == Split(prompt.transcript)

ShownTargets ==
    { i \in 1..Len(ShownLines) :
        LocatedBy(ShownLines[i], PendingArgs.current_role,
                  PendingArgs.utterance_prefix) }

\* The line the pending call matches in the shown transcript is the only
\* line edited since, and does not match any more.
ShownTarget == CHOOSE i \in ShownTargets : \A j \in ShownTargets : i <= j

TargetRelabelledBefore ==
    /\ ShownTargets # {}
    /\ ShownTarget \notin PendingTargets
    /\ \A i \in 1..Len(ShownLines) :
         i # ShownTarget => CurrentLines[i] = ShownLines[i]

\* C37: the tool calls of a reply are processed in the order returned, each
\* located in the transcript as the earlier calls of the reply left it: the
\* call at the head is logged and taken off, it edits the first line it
\* matches in the current transcript or is reported utterance_not_found when
\* it matches none; a call whose line in the shown transcript was relabelled
\* by the call before it is not found or edits a later line.
C37_LocatedInCurrentTranscript ==
    [][ CorrectionCallPending =>
          /\ log'[Len(log) + 1] = [step |-> "tool_call",
                                   function |-> Head(tool_calls).function,
                                   arguments |-> PendingArgs]
          /\ tool_calls' = Tail(tool_calls)
          /\ IF PendingTargets = {}
             THEN /\ log'[Len(log) + 2].step = "utterance_not_found"
                  /\ current_transcript' = current_transcript
             ELSE /\ log'[Len(log) + 2].step = "utterance_corrected"
                  /\ log'[Len(log) + 2].line_index = PendingTarget - 1
                  /\ log'[Len(log) + 2].old_line = CurrentLines[PendingTarget]
          /\ TargetRelabelledBefore =>
               \/ log'[Len(log) + 2].step = "utterance_not_found"
               \/ log'[Len(log) + 2].line_index + 1 > ShownTarget
      ]_vars

\* The second call of a reply names the role the first call has just taken
\* from the only line that carried it: it is not found.
C37_Witness ==
    /\ pc = "sg_tools"
    /\ Len(log) >= 4
    /\ log[Len(log)].step = "utterance_not_found"
    /\ log[Len(log) - 2].step = "utterance_corrected"
    /\ log[Len(log) - 2].old_role = log[Len(log)].current_role
    /\ \E i \in 1..Len(ShownLines) :
         LocatedBy(ShownLines[i], log[Len(log)].current_role, log[Len(log)].prefix)


(***************************************************************************)
(* Tool calls outside the tool's description (LooseServiceSpec).           *)
(***************************************************************************)
\* Every correction recorded so far names the same role twice.
OnlySameRoleCorrections ==
    /\ corrections_made # <<>>
    /\ \A k \in 1..Len(corrections_made) :
         corrections_made[k].correct_role = corrections_made[k].current_role

\* C38: a tool call whose correct_role is its current_role and which
\* locates a line leaves the transcript as it is and still counts as a
\* correction: utterance_corrected is logged, a Correction is recorded and
\* counted in total_corrections, and the loop goes on to another iteration
\* as after any correction.
C38_SameRoleCorrectionCounts ==
    /\ [][ (/\ CorrectionCallPending
            /\ PendingArgs.correct_role = PendingArgs.current_role
            /\ PendingTargets # {}) =>
             /\ current_transcript' = current_transcript
             /\ log'[Len(log) + 2].step = "utterance_corrected"
             /\ log'[Len(log) + 2].new_line = log'[Len(log) + 2].old_line
             /\ corrections_made' =
                  Append(corrections_made,
                         [current_role |-> PendingArgs.current_role,
                          correct_role |-> PendingArgs.correct_role,
                          reason |-> PendingArgs.reason])
         ]_vars
    /\ [][ (/\ pc = "sg_tools"
            /\ tool_calls = <<>>
            /\ OnlySameRoleCorrections
            /\ IterationNumber < 3) =>
             pc' = "sg_loop" ]_vars
    /\ []((Returned /\ OnlySameRoleCorrections) =>
            /\ result_transcript = transcript
            /\ log[Len(log)].total_corrections = Len(corrections_made))

\* A run has returned the transcript it was given, after three iterations
\* in each of which such a call was counted as a correction.
C38_Witness ==
    /\ Returned
    /\ OnlySameRoleCorrections
    /\ result_transcript = transcript
    /\ NumLogged("safeguard_iteration") = 3
    /\ log[Len(log)].total_corrections = 3

\* The lines of the current transcript that, trimmed, begin with the
\* pending call's "<current_role>:".
Carriers ==
    { i \in 1..Len(CurrentLines) :
        StartsWithAt(Strip(CurrentLines[i]),
                     PendingArgs.current_role \o <<COLON>>, 1) }

\* C39: a tool call whose utterance_prefix is empty or whitespace only
\* locates the first line that begins with "<current_role>:": that line is
\* corrected whenever a line carries current_role, and utterance_not_found
\* is logged only when none does.
C39_EmptyPrefixLocatesFirstCarrier ==
    [][ (CorrectionCallPending /\ Strip(PendingArgs.utterance_prefix) = <<>>) =>
          IF Carriers = {}
          THEN /\ log'[Len(log) + 2].step = "utterance_not_found"
               /\ current_transcript' = current_transcript
          ELSE /\ log'[Len(log) + 2].step = "utterance_corrected"
               /\ log'[Len(log) + 2].line_index + 1 \in Carriers
               /\ \A i \in Carriers : log'[Len(log) + 2].line_index + 1 <= i
               /\ corrections_made' # corrections_made
      ]_vars

\* A call with a prefix of one space has corrected the second line, the
\* first one that carries its role.
C39_Witness ==
    /\ Len(log) >= 2
    /\ log[Len(log)].step = "utterance_corrected"
    /\ log[Len(log)].line_index = 1
    /\ log[Len(log) - 1].step = "tool_call"
    /\ log[Len(log) - 1].arguments.utterance_prefix = <<SP>>


(***************************************************************************)
(* Termination (LiveEntrySpec).                                            *)
(***************************************************************************)
\* C40: every invocation of classify_speakers and every run of
\* run_safeguard_validation eventually returns or raises, whatever the
\* service replies, replies that keep undoing each other's corrections
\* included.
C40_EventuallyTerminates == <>(Returned \/ Failed)

\* A safeguard run has returned after three iterations whose corrections
\* undid each other in turn.
C40_Witness ==
    /\ Returned
    /\ NumLogged("safeguard_iteration") = 3
    /\ Len(corrections_made) = 3
    /\ corrections_made[2].current_role = corrections_made[1].correct_role
    /\ corrections_made[2].correct_role = corrections_made[1].current_role
    /\ corrections_made[3] = corrections_made[1]

====
